---- MODULE Spec2Model ----
(***************************************************************************)
(* A model of the spocker container runtime: the launch pipeline of        *)
(* cmd/spocker (run -> container.Run), the cgroup manager of               *)
(* internal/container/cgroup with its parameter helpers, the Filesystem    *)
(* methods, GetAvailableIP, the namespace calls, two launches that create   *)
(* a cgroup or a network of the same name at once, a client of the network *)
(* manager (create, connect, disconnect, delete) and a client of the       *)
(* process package (Start, Kill, Wait).  The variable entry says which of  *)
(* these callers a behaviour follows.                                      *)
(*                                                                         *)
(* Files are regular files as os.OpenFile sees them: a write through a     *)
(* descriptor opened without O_TRUNC overwrites the bytes at offset 0 and  *)
(* keeps the tail; a file is created only by O_CREATE.  Every system call  *)
(* may fail (the choice "ok" of the actions).                              *)
(***************************************************************************)
EXTENDS Integers, Sequences, FiniteSets, TLC

\* ------------------------------------------------------------------ bounds
MaxPid == 1        \* the runtime's pid is one of 1..MaxPid
MaxStatus == 2     \* the child exits with a status in 0..MaxStatus
MaxOps == 3        \* calls an API client makes on a cgroup handle
MaxCalls == 2      \* calls a client makes on a Filesystem
MaxNetCalls == 4   \* calls a client makes on the network manager
MaxFrames == 2     \* ARP frames and read errors one probe receives
MaxIfaces == 3     \* interfaces net.Interfaces() lists
MaxRoutes == 2     \* routes handler.RouteList returns
MaxDepth == 4      \* nested readDomainName calls a goroutine's stack holds

\* ------------------------------------------------------- program constants
ProbeLimit == 10   \* GetAvailableIP tries up to 10 random addresses
DnsCap == 512      \* configureDNS reads into make([]byte, 512)

\* ------------------------------------------------------------- text, files
DigitChar == <<"0", "1", "2", "3", "4", "5", "6", "7", "8", "9">>

\* fmt's %d of an int
RECURSIVE Dec(_)
Dec(n) == IF n < 0 THEN <<"-">> \o Dec(-n)
          ELSE IF n < 10 THEN <<DigitChar[n + 1]>>
          ELSE Dec(n \div 10) \o <<DigitChar[(n % 10) + 1]>>

\* fmt.Fprintf(tasksFile, "%d\n", pid)
PidLine(p) == Dec(p) \o <<"\n">>

\* write(2) at offset 0 of a descriptor opened without O_TRUNC or O_APPEND
WriteAt0(old, data) == data \o SubSeq(old, Len(data) + 1, Len(old))

IsPrefix(p, q) == Len(p) <= Len(q) /\ SubSeq(q, 1, Len(p)) = p

\* os.MkdirAll: the directory and every missing parent, the root included
MkdirAll(ds, path) == ds \cup {SubSeq(path, 1, k) : k \in 0..Len(path)}

\* the file map with file f holding content c
PutFile(fm, f, c) == [g \in (DOMAIN fm) \cup {f} |-> IF g = f THEN c ELSE fm[g]]

\* os.OpenFile(f, flags): it succeeds on an existing file, or creates one with
\* O_CREATE in an existing directory
CanOpen(ds, fm, f, flags) ==
  \/ f \in DOMAIN fm
  \/ "O_CREATE" \in flags /\ SubSeq(f, 1, Len(f) - 1) \in ds
\* the files after the open: created empty, or truncated by O_TRUNC
Opened(fm, f, flags) ==
  IF f \notin DOMAIN fm \/ "O_TRUNC" \in flags THEN PutFile(fm, f, <<>>) ELSE fm
\* the first write through a descriptor opened with flags
Written(fm, f, flags, data) ==
  PutFile(fm, f, IF "O_APPEND" \in flags THEN fm[f] \o data ELSE WriteAt0(fm[f], data))

\* os.RemoveAll: the subtree at path
RemoveDirs(ds, path) == {d \in ds : ~IsPrefix(path, d)}
RemoveFiles(fm, path) == [g \in {h \in DOMAIN fm : ~IsPrefix(path, h)} |-> fm[g]]

\* ------------------------------------------------------------ cgroup paths
Subsystems == <<"cpu", "memory", "blkio">>

ControlFile(s) == CASE s = "cpu" -> "cpu.shares"
                    [] s = "memory" -> "memory.limit_in_bytes"
                    [] s = "blkio" -> "blkio.weight"

\* ------------------------------------------------------- path strings
\* A path string is the sequence of its separators and element names.
Sep == "/"

\* strings.HasPrefix
HasPrefix(s, prefix) == IsPrefix(prefix, s)

PathElems(s) == SelectSeq(s, LAMBDA t : t # Sep)
IsAbs(s) == s # <<>> /\ s[1] = Sep

\* filepath.Clean, element by element: "." is dropped, ".." removes the
\* element before it, and a ".." at the root of a rooted path is dropped
RECURSIVE CleanElems(_, _, _)
CleanElems(rest, done, rooted) ==
  IF rest = <<>> THEN done
  ELSE LET e == Head(rest)
           nd == IF e = "." THEN done
                 ELSE IF e = ".."
                 THEN IF done # <<>> /\ done[Len(done)] # ".."
                      THEN SubSeq(done, 1, Len(done) - 1)
                      ELSE IF rooted THEN done ELSE Append(done, "..")
                 ELSE Append(done, e)
       IN CleanElems(Tail(rest), nd, rooted)

RECURSIVE JoinElems(_)
JoinElems(es) == IF Len(es) <= 1 THEN es ELSE <<Head(es), Sep>> \o JoinElems(Tail(es))

Clean(s) ==
  LET es == CleanElems(PathElems(s), <<>>, IsAbs(s))
  IN IF IsAbs(s) THEN <<Sep>> \o JoinElems(es)
     ELSE IF es = <<>> THEN <<".">> ELSE JoinElems(es)

\* filepath.Join of two elements: empty elements are ignored, the result is cleaned
FilepathJoin(a, b) ==
  Clean(IF a = <<>> THEN b ELSE IF b = <<>> THEN a ELSE a \o <<Sep>> \o b)

\* the string of a rooted path with the given elements
AbsPath(es) == <<Sep>> \o JoinElems(es)

\* filepath.Join(cgroupRoot, spec.Name): paths are the elements beneath the
\* cgroup root, and spec.Name is a path string
CgroupPath(n) == CleanElems(PathElems(n), <<>>, FALSE)
TasksFilePath(n) == CgroupPath(n) \o <<"tasks">>
SubsystemPath(s, n) == <<s>> \o CgroupPath(n)
SubsystemFile(s, n) == SubsystemPath(s, n) \o <<ControlFile(s)>>

VARIABLES
  entry,       \* "run": cmd/spocker run -> container.Run; "api": a caller of the cgroup package
  euid,        \* os.Geteuid()
  pid,         \* os.Getpid()
  name,        \* spec.Name
  res,         \* spec.Resources: the limits that are present (non-nil)
  handler,     \* the fileHandler field of the subsystem values: "nil" or "os"
  fsRootKind,  \* what os.Stat(fsRoot) finds: "dir", "file" or "missing"
  ifaceExists, \* an interface named config.Name exists
  dirs,        \* directories beneath the cgroup root
  files,       \* regular files beneath the cgroup root and their content
  cpc,         \* position inside NewCgroup
  csub,        \* index of the subsystem NewCgroup is at
  cres,        \* how NewCgroup ended: "none", "ok", "err", "panic"
  tasksFd,     \* the tasks-file descriptor: "none", "open", "closed"
  handle,      \* the handle's state in the documented state machine
  last,        \* the last call on the handle: op, state before, result
  ops,         \* calls made on the handle so far
  closeCalls,  \* results of the Close calls so far
  pc,          \* position of the launch
  attempted,   \* phases Run began, in order
  succeeded,   \* phases that returned without error
  defers,      \* release calls Run deferred, in registration order
  released,    \* release calls run, in order
  nsFd,        \* the namespace handle's descriptor
  spawned,     \* processes spawned (helper, hostnamectl, child)
  probes,      \* ARP probes sent
  childStatus, \* exit status of the child, -1 before it exited
  runErr,      \* Run returned a non-nil error
  exitCode,    \* exit code of the runtime process, -1 while it runs
  delErr,      \* the error of Run's deferred DeleteNetwork, "none" before it ran
  klog,        \* writes to the cgroup tree, in order
  hostFiles,   \* files of the host, by absolute path, and their content
  hostIo,      \* file operations the param calls have made: op and path
  plast,       \* the last param call: its arguments, its error, its file operations
  root,        \* Filesystem.Root
  hostDirs,    \* directories of the host, by absolute path
  flast,       \* the last Filesystem call: arguments, resolved paths, error, operations
  calls,       \* Filesystem calls made so far
  lpc,         \* two launches: the position of each inside NewCgroup
  lsub,        \* two launches: the subsystem each is at
  lres,        \* two launches: how NewCgroup ended for each
  npc,         \* two launches: the position of each inside CreateNetwork
  nres,        \* two launches: the Network each holds, or its error
  ifaces,      \* names of the kernel's network interfaces
  cidr,        \* the IPNet given to GetAvailableIP: address bytes, mask ones and bits
  cidrFlag,    \* the text of --network-ip-cidr
  tries,       \* GetAvailableIP: iterations of its loop done
  ipres,       \* GetAvailableIP: what it returned
  iplog,       \* GetAvailableIP: what IsIPInUse returned for each candidate, in order
  probed,      \* GetAvailableIP: the candidate of its last IsIPInUse call
  nsType,      \* NamespaceSpec.Type given to NewNamespace
  helperNs,    \* the namespace flags the helper child was started with
  nsCloses,    \* results of the Namespace.Close calls so far
  hostname,    \* the kernel's hostname
  hlast,       \* the last SetHostname call: its argument, its error, processes it spawned
  network,     \* the Network value the network client holds
  netState,    \* the network's state in the documented state machine
  linkUp,      \* the link named NetName is up
  addrs,       \* addresses on the link named NetName
  routes,      \* the kernel's routes
  kpc,         \* position of the network client inside CreateNetwork
  dhcpd,       \* the DHCPv6 listener: "none", "serving", "stopped"
  nlast,       \* the last network call: op, state and tables before, error
  ncalls,      \* network calls made so far
  cfgIP,       \* config.IPNet.IP of the Config the network client passes to CreateNetwork
  child,       \* the process client's child: "none", "failed", "running", "exited", "signaled"
  cstat,       \* the status the child exited with, -1 when it did not exit by itself
  signals,     \* signals Kill delivered to the running child
  waits,       \* what the Wait calls returned, in order
  qip,         \* IsIPInUse: the candidate address it is given
  qpc,         \* IsIPInUse: its position
  qres,        \* IsIPInUse: what it returned: "none", "in use", "free"
  timer,       \* IsIPInUse: the channel of time.After(time.Second) has fired
  qerr,        \* IsIPInUse: an interface or ARP call has returned an error
  frames,      \* IsIPInUse: ARP frames client.Read has returned
  interfaces,  \* GetDefaultGateway: the indexes of net.Interfaces(), in its order
  gwpc,        \* GetDefaultGateway: its position
  gwi,         \* GetDefaultGateway: iterations of the first loop done
  iface,       \* GetDefaultGateway: the loop variable, by the Index it holds (0 before the loop)
  defaultIface, \* GetDefaultGateway: "nil" or "&iface", the address of the loop variable
  examined,    \* GetDefaultGateway: the Index of the interface given to handler.Addrs, 0 for none
  rlist,       \* GetDefaultGateway: the routes handler.RouteList returned, by their Dst
  gwres,       \* GetDefaultGateway: what it returned
  response,    \* parseDNSResponse: the bytes received, response[:n]
  dpc,         \* parseDNSResponse: its position
  doff,        \* parseDNSResponse: offset (of the running readDomainName while one runs)
  dstack,      \* readDomainName: the offsets of the pointers its pending calls follow, outermost first
  dcaller,     \* readDomainName: who called the outermost one: "question" or "answer"
  dcount,      \* parseDNSResponse: iterations done of the loop it is in
  answers,     \* parseDNSResponse: the record types of the answers read so far
  pastEnd,     \* parseDNSResponse: a read has covered a byte beyond the received ones
  dres         \* parseDNSResponse: how it ended: "none", "answers", "error", "panic", "stack overflow"

inputs == <<entry, euid, pid, name, res, handler, fsRootKind, ifaceExists, root, cidr,
            cidrFlag>>
fsvars == <<dirs, files>>
cgvars == <<cpc, csub, cres, tasksFd>>
apivars == <<handle, last, ops, closeCalls>>
runvars == <<pc, attempted, succeeded, defers, released, nsFd, spawned, probes,
             childStatus, runErr, exitCode, delErr>>
paramvars == <<hostFiles, hostIo, plast>>
fsysvars == <<hostDirs, flast, calls>>
cgracevars == <<lpc, lsub, lres>>
netracevars == <<npc, nres, ifaces>>
ipvars == <<tries, ipres, iplog, probed>>
nsvars == <<nsType, helperNs, nsCloses, hostname, hlast>>
netvars == <<network, netState, linkUp, addrs, routes, kpc, dhcpd, nlast, ncalls, cfgIP>>
procvars == <<child, cstat, signals, waits>>
probevars == <<qip, qpc, qres, timer, qerr, frames>>
gwvars == <<interfaces, gwpc, gwi, iface, defaultIface, examined, rlist, gwres>>
dnsvars == <<response, dpc, doff, dstack, dcaller, dcount, answers, pastEnd, dres>>
toolvars == <<probevars, gwvars, dnsvars>>
clientvars == <<netvars, procvars, toolvars>>
libvars == <<paramvars, fsysvars, cgracevars, netracevars, ipvars, nsvars, clientvars>>
launchvars == <<fsvars, cgvars, apivars, runvars, klog>>
vars == <<inputs, fsvars, cgvars, apivars, runvars, klog, libvars>>
\* what the calls of the probe, the gateway lookup and the DNS parser leave alone
oldvars == <<inputs, launchvars, paramvars, fsysvars, cgracevars, netracevars, ipvars, nsvars,
             netvars, procvars>>


\* ------------------------------------------------------------------ inputs
Absent == -1

\* a Resources value: the limits whose pointer is non-nil
MkRes(c, m, b) ==
  LET v == [s \in {"cpu", "memory", "blkio"} |->
              IF s = "cpu" THEN c ELSE IF s = "memory" THEN m ELSE b]
  IN [s \in {x \in {"cpu", "memory", "blkio"} : v[x] # Absent} |-> v[s]]

\* main builds all three limits from its flags (cmd/spocker/main.go:66-79)
CliRes == {MkRes(c, 1024, 100) : c \in {5, 512}}
\* a caller of the package may leave limits out (exec_container.go:24-31)
ApiRes == {MkRes(c, m, b) : c \in {Absent, 5, 512}, m \in {Absent, 1024}, b \in {Absent, 100}}
\* or pass a negative limit
NegativeRes == {MkRes(-5, 1024, 100), MkRes(512, 1024, -7)}

\* spec.Name as the launches pass it
DefaultName == <<"c1">>
\* spec.Name as a caller of the package may pass it: c1, the empty name, a/b
Names == {DefaultName, <<>>, <<"a", Sep, "b">>}

\* what a control file may hold before the call
PreContents == {<<>>, Dec(1024)}
\* the controls an API client sets
Controls == {"cpu.shares", "memory.limit_in_bytes"}

\* the tree an earlier launch with the same name left behind
StaleDirs(n) == {CgroupPath(n)} \cup {<<Subsystems[i]>> : i \in 1..Len(Subsystems)}
                \cup {SubsystemPath(Subsystems[i], n) : i \in 1..Len(Subsystems)}
StaleFiles(n, c) ==
  [f \in {TasksFilePath(n)} \cup {SubsystemFile(Subsystems[i], n) : i \in 1..Len(Subsystems)}
         \cup {CgroupPath(n) \o <<k>> : k \in Controls} |-> c]
NoFiles == [f \in {} |-> <<>>]

NoCall == [op |-> "none", before |-> "Unbuilt", ok |-> FALSE, changed |-> FALSE]

\* the callers of one package, besides the launch and the cgroup client
LibEntries == {"param", "fs", "cgrace", "netrace", "ip", "ns", "net", "proc", "probe", "gw", "dns"}
\* two launches run at once; the tree they start from is the one an earlier
\* launch and its Remove() left: root/name is gone, root/<subsystem>/name is not
Launches == {1, 2}
\* the network name both launches are given
NetName == "br1"
\* all three limits, as main's defaults give them
DefaultRes == MkRes(512, 1024, 100)

\* the error of DeleteNetwork(name) when step failed fails: the interface has
\* to exist for net.InterfaceByName
DeleteNetworkErr(ifs, failed) ==
  IF NetName \notin ifs THEN "no such network interface"
  ELSE IF failed = "none" THEN "nil" ELSE failed

\* ------------------------------------------------- cgroup parameter calls
CgroupPrefix == AbsPath(<<"sys", "fs", "cgroup">>) \o <<Sep>>

\* what callers pass as cgroupPath
ParamPaths ==
  { AbsPath(<<"sys", "fs", "cgroup", "c1">>),
    AbsPath(<<"sys", "fs", "cgroup">>),
    AbsPath(<<"sys", "fs", "cgroup", "..", "..", "..", "etc">>),
    AbsPath(<<"etc">>),
    JoinElems(<<"sys", "fs", "cgroup", "c1">>) }
\* what callers pass as param
ParamNames ==
  { <<"cpu.shares">>, <<"passwd">>,
    JoinElems(<<"..", "..", "..", "..", "etc", "passwd">>) }
ParamValues == {Dec(512)}

\* the files of the host the calls can name
HostFiles ==
  [f \in {AbsPath(<<"sys", "fs", "cgroup", "c1", "cpu.shares">>), AbsPath(<<"etc", "passwd">>),
          AbsPath(<<"srv", "c", "a">>), AbsPath(<<"srv", "c", "b">>)}
     |-> CASE f = AbsPath(<<"etc", "passwd">>) -> <<"r", "o", "o", "t">>
           [] f = AbsPath(<<"srv", "c", "a">>) -> <<"x">>
           [] f = AbsPath(<<"srv", "c", "b">>) -> <<"y", "y">>
           [] OTHER -> Dec(1024)]

IoEv(op, path) == [op |-> op, path |-> path]
ParamCall(op, path, param, err, io) ==
  [op |-> op, path |-> path, param |-> param, err |-> err, io |-> io]
NoParamCall == ParamCall("none", <<>>, <<>>, "none", {})

\* ----------------------------------------------------------- IP addresses
\* A net.IP is its bytes; <<>> is the nil IP.
IPv4len == 4
IPv6len == 16
Zeros(n) == [i \in 1..n |-> 0]
v4InV6Prefix == Zeros(10) \o <<255, 255>>

\* net.IP.To4
To4(ip) ==
  IF Len(ip) = IPv4len THEN ip
  ELSE IF Len(ip) = IPv6len /\ SubSeq(ip, 1, 12) = v4InV6Prefix THEN SubSeq(ip, 13, 16)
  ELSE <<>>

\* net.IP.To16
To16(ip) ==
  IF Len(ip) = IPv4len THEN v4InV6Prefix \o ip
  ELSE IF Len(ip) = IPv6len THEN ip
  ELSE <<>>

\* the number of low bits byte i of a mask with the given ones leaves free
FreeBits(ones, i) ==
  LET k == ones - 8 * (i - 1) IN IF k >= 8 THEN 0 ELSE IF k <= 0 THEN 8 ELSE 8 - k

\* net.IP.Mask with the mask net.CIDRMask(ones, 8 * Len(ip))
MaskIP(ip, ones) == [i \in 1..Len(ip) |-> ip[i] - (ip[i] % (2 ^ FreeBits(ones, i)))]

\* an IPNet as net.ParseCIDR returns it: the masked address and the mask size
Cidr(ip, ones) == [ip |-> MaskIP(ip, ones), ones |-> ones, bits |-> 8 * Len(ip)]

\* big.Int.SetBytes, Add of a non-negative int, on big-endian bytes
RECURSIVE AddToBytes(_, _)
AddToBytes(bs, n) ==
  IF bs = <<>>
  THEN IF n = 0 THEN <<>> ELSE AddToBytes(<<>>, n \div 256) \o <<n % 256>>
  ELSE LET sum == bs[Len(bs)] + n
       IN AddToBytes(SubSeq(bs, 1, Len(bs) - 1), sum \div 256) \o <<sum % 256>>

\* big.Int.Bytes: the big-endian bytes without leading zero bytes
RECURSIVE BigBytes(_)
BigBytes(bs) == IF bs # <<>> /\ bs[1] = 0 THEN BigBytes(Tail(bs)) ELSE bs

\* net.IPNet.Contains
Contains(c, ip) ==
  LET nn == IF To4(c.ip) # <<>> THEN To4(c.ip) ELSE c.ip
      x == IF To4(ip) # <<>> THEN To4(ip) ELSE ip
      ones == c.ones - (c.bits - 8 * Len(nn))
  IN Len(x) = Len(nn) /\ MaskIP(x, ones) = MaskIP(nn, ones)

\* the CIDRs given to GetAvailableIP: 10.0.0.0/30, 10.0.0.0/32, fd00::/126,
\* fd00::/128, ::10.0.0.0/126, ::10.0.0.1/128, fd00::/64 and fd00::/65
Cidrs ==
  { Cidr(<<10, 0, 0, 0>>, 30), Cidr(<<10, 0, 0, 0>>, 32),
    Cidr(<<253>> \o Zeros(15), 126), Cidr(<<253>> \o Zeros(15), 128),
    Cidr(Zeros(12) \o <<10, 0, 0, 0>>, 126), Cidr(Zeros(12) \o <<10, 0, 0, 1>>, 128),
    Cidr(<<253>> \o Zeros(15), 64), Cidr(<<253>> \o Zeros(15), 65) }

\* bytealg.IndexByteString: the first position of c in s, 0 when there is none
IndexByte(s, c) ==
  IF \E i \in 1..Len(s) : s[i] = c
  THEN CHOOSE i \in 1..Len(s) : s[i] = c /\ \A j \in 1..(i - 1) : s[j] # c
  ELSE 0

IsDigit(ch) == \E d \in 1..Len(DigitChar) : DigitChar[d] = ch
\* dtoi on a text of digits
RECURSIVE Dtoi(_)
Dtoi(ds) ==
  IF ds = <<>> THEN 0
  ELSE 10 * Dtoi(SubSeq(ds, 1, Len(ds) - 1))
       + (CHOOSE d \in 0..9 : DigitChar[d + 1] = ds[Len(ds)])

\* netip.ParseAddr on the address texts of the model; <<>> when it fails
ParseAddr(a) == IF a = <<"10.0.0.0">> THEN <<10, 0, 0, 0>> ELSE <<>>

\* what net.ParseCIDR returns with an error
ParseError == [ip |-> <<>>, ones |-> -1, bits |-> 0]

\* net.ParseCIDR: the text before the first "/" is the address, the text
\* after it the prefix length, at most the bit length of the address
ParseCIDR(s) ==
  LET i == IndexByte(s, Sep)
      addr == SubSeq(s, 1, i - 1)
      mask == SubSeq(s, i + 1, Len(s))
      ip == ParseAddr(addr)
  IN IF i = 0 \/ ip = <<>> \/ mask = <<>> \/ (\E k \in 1..Len(mask) : ~IsDigit(mask[k]))
     THEN ParseError
     ELSE IF Dtoi(mask) > 8 * Len(ip) THEN ParseError
     ELSE Cidr(ip, Dtoi(mask))

\* --network-ip-cidr as given: 10.0.0.0/30
GoodCidrFlag == <<"10.0.0.0", Sep, "3", "0">>
\* the flag left out (its default is the empty text), 10.0.0.0, 10.0.0.0/33
\* and 10.0.0/30
CidrFlags ==
  { GoodCidrFlag, <<>>, <<"10.0.0.0">>, <<"10.0.0.0", Sep, "3", "3">>,
    <<"10.0.0", Sep, "3", "0">> }

IpResult(status, ip) == [status |-> status, ip |-> ip]
NoIp == IpResult("none", <<>>)

\* ---------------------------------------------------------- Filesystem calls
FsRoots == {AbsPath(<<"srv", "c">>)}
\* what callers pass as a path inside the filesystem
RelPaths == {<<"a">>, <<"b">>, <<"d">>, JoinElems(<<"..", "..", "etc", "passwd">>)}

\* the directories of the host
HostDirs ==
  {AbsPath(<<>>), AbsPath(<<"srv">>), AbsPath(<<"srv", "c">>), AbsPath(<<"etc">>),
   AbsPath(<<"sys">>), AbsPath(<<"sys", "fs">>), AbsPath(<<"sys", "fs", "cgroup">>),
   AbsPath(<<"sys", "fs", "cgroup", "c1">>)}

FsCall(op, args, resolved, err, io, srcBefore) ==
  [op |-> op, args |-> args, resolved |-> resolved, err |-> err, io |-> io,
   srcBefore |-> srcBefore]
NoFsCall == FsCall("none", <<>>, <<>>, "none", {}, <<>>)

\* ------------------------------------------------------------ namespace calls
\* the names callers pass to SetHostname
Hostnames == {"test-hostname2", "your-container-hostname"}
HostnameCall(n, hname, err, children) ==
  [n |-> n, name |-> hname, err |-> err, spawned |-> children]
NoHostnameCall == HostnameCall(0, "", "none", 0)

\* ------------------------------------------------------------ network calls
\* the address CreateNetwork stamps into the Network, and the gateway
NetAddr == <<10, 0, 0, 2>>
Gateway == <<10, 0, 0, 1>>
\* a nil net.IP
NilIP == <<>>

\* a Network value: its gateway (nil or not), the length of its DNS list
Network(gw, ndns, dhcp) == [gateway |-> gw, dns |-> ndns, dhcp |-> dhcp]
NoNetwork == [gateway |-> NilIP, dns |-> -1, dhcp |-> FALSE]

NetRecord(op, dhcp, before, err, up, as, rs) ==
  [op |-> op, dhcp |-> dhcp, before |-> before, err |-> err, up |-> up, addrs |-> as,
   routes |-> rs]
\* candidates GetAvailableIP hands to the probe: an IPv4 address, and the six
\* bytes big.Int.Bytes() leaves of an IPv4-mapped address
ProbeTargets == {NetAddr, <<255, 255, 10, 0, 0, 2>>}

\* the values of NamespaceType
NamespaceTypes == {"PID", "UTS", "IPC", "Net", "User", "Cgroup"}

\* what net.Interfaces() may return: up to MaxIfaces interfaces, each Index
\* once, in any order
InterfaceLists ==
  {q \in UNION {[1..n -> 1..MaxIfaces] : n \in 0..MaxIfaces} :
     \A i, j \in 1..Len(q) : i # j => q[i] # q[j]}

\* the gateway and the error GetDefaultGateway returns
GwResult(err, gw) == [err |-> err, gw |-> gw]

\* a DNS header with the given QR, RCODE, QDCOUNT and ANCOUNT
DnsHeaderBytes(qr, rcode, qd, an) == <<0, 1, 128 * qr, rcode, 0, qd, 0, an, 0, 0, 0, 0>>
\* the name "a", QTYPE A and QCLASS IN
DnsQuestionA == <<1, 97, 0, 0, 1, 0, 1>>
\* TYPE, CLASS IN, TTL 60, RDLENGTH 4 and an address
DnsRecordBody(type) == <<0, type, 0, 1, 0, 0, 0, 60, 0, 4, 10, 0, 0, 2>>

\* the datagrams given to parseDNSResponse: an answer with its name written
\* out, one with the usual pointer to the question's name, one of a type the
\* parser does not know, a short datagram, a query, a refusal, a header that
\* announces a question that is not there, a label longer than the rest, a
\* record cut after its name, a record with RDLENGTH 65535, and a name that
\* is a pointer to itself
DnsResponses ==
  { DnsHeaderBytes(1, 0, 1, 1) \o DnsQuestionA \o <<1, 97, 0>> \o DnsRecordBody(1),
    DnsHeaderBytes(1, 0, 1, 1) \o DnsQuestionA \o <<192, 12>> \o DnsRecordBody(1),
    DnsHeaderBytes(1, 0, 1, 1) \o DnsQuestionA \o <<1, 97, 0>> \o DnsRecordBody(5),
    <<0, 1, 128>>,
    DnsHeaderBytes(0, 0, 1, 0) \o DnsQuestionA,
    DnsHeaderBytes(1, 3, 1, 0) \o DnsQuestionA,
    DnsHeaderBytes(1, 0, 1, 0),
    DnsHeaderBytes(1, 0, 1, 0) \o <<5, 97>>,
    DnsHeaderBytes(1, 0, 0, 1) \o <<1, 97, 0>>,
    DnsHeaderBytes(1, 0, 0, 1) \o <<0, 0, 1, 0, 1, 0, 0, 0, 60, 255, 255>>,
    DnsHeaderBytes(1, 0, 1, 0) \o <<192, 12>> }

NoNetCall == NetRecord("none", FALSE, "Absent", "none", FALSE, {}, {})

Init ==
  /\ entry \in {"run", "api"} \cup LibEntries
  /\ euid \in (IF entry = "run" THEN {0, 1000} ELSE {0})
  /\ pid \in (IF entry \in {"param", "fs"} THEN {1} ELSE 1..MaxPid)
  /\ name \in (IF entry = "api" THEN Names ELSE {DefaultName})
  /\ res \in (IF entry = "run" THEN CliRes
              ELSE IF entry = "api" THEN ApiRes \cup NegativeRes ELSE {DefaultRes})
  /\ handler \in (IF entry \in {"run", "api"} THEN {"nil", "os"} ELSE {"os"})
  /\ name # DefaultName => handler = "os" /\ res = DefaultRes
  /\ res \in NegativeRes => handler = "os"
  /\ fsRootKind \in (IF entry = "run" THEN {"dir", "file", "missing"} ELSE {"dir"})
  /\ ifaceExists \in (IF entry \in {"run", "netrace", "net"} THEN BOOLEAN ELSE {FALSE})
  /\ IF entry = "cgrace"
     THEN /\ dirs = RemoveDirs(StaleDirs(name), CgroupPath(name))
          /\ files = RemoveFiles(StaleFiles(name, Dec(1024)), CgroupPath(name))
     ELSE \E fresh \in BOOLEAN, c \in PreContents :
            /\ fresh => c = <<>>
            /\ entry \in LibEntries => fresh
            /\ dirs = IF fresh THEN {} ELSE StaleDirs(name)
            /\ files = IF fresh THEN NoFiles ELSE StaleFiles(name, c)
  /\ cpc = "idle" /\ csub = 1 /\ cres = "none" /\ tasksFd = "none"
  /\ handle = "Unbuilt" /\ last = NoCall /\ ops = 0 /\ closeCalls = <<>>
  /\ pc = IF entry = "run" THEN "main" ELSE entry
  /\ attempted = <<>> /\ succeeded = {} /\ defers = <<>> /\ released = <<>>
  /\ nsFd = "none" /\ spawned = 0 /\ probes = 0
  /\ childStatus = -1 /\ runErr = FALSE /\ exitCode = -1 /\ delErr = "none"
  /\ klog = <<>>
  /\ hostFiles = HostFiles /\ hostIo = {} /\ plast = NoParamCall
  /\ root \in FsRoots /\ hostDirs = HostDirs /\ flast = NoFsCall /\ calls = 0
  /\ lpc = [p \in Launches |-> IF entry = "cgrace" THEN "mkdir" ELSE "idle"]
  /\ lsub = [p \in Launches |-> 1] /\ lres = [p \in Launches |-> "none"]
  /\ npc = [p \in Launches |-> IF entry = "netrace" THEN "check" ELSE "idle"]
  /\ nres = [p \in Launches |-> "none"]
  /\ ifaces = IF ifaceExists THEN {NetName} ELSE {}
  /\ cidr \in (IF entry = "ip" THEN Cidrs ELSE {Cidr(<<10, 0, 0, 0>>, 30)})
  /\ cidrFlag \in (IF entry = "run" THEN CidrFlags ELSE {GoodCidrFlag})
  /\ cidrFlag # GoodCidrFlag => handler = "os" /\ fsRootKind = "dir"
  /\ tries = 0 /\ ipres = NoIp /\ iplog = <<>> /\ probed = NilIP
  /\ nsType \in (IF entry = "ns" THEN NamespaceTypes ELSE {"PID"})
  /\ helperNs = {}
  /\ nsCloses = <<>> /\ hostname = "test-hostname" /\ hlast = NoHostnameCall
  /\ network = NoNetwork /\ netState = "Absent"
  /\ linkUp \in (IF entry = "net" /\ ifaceExists THEN BOOLEAN ELSE {FALSE})
  /\ addrs = {} /\ routes = {}
  /\ kpc = "idle" /\ dhcpd = "none" /\ nlast = NoNetCall /\ ncalls = 0
  /\ cfgIP = cidr.ip
  /\ child = "none" /\ cstat = -1 /\ signals = 0 /\ waits = <<>>
  /\ qip \in (IF entry = "probe" THEN ProbeTargets ELSE {NetAddr})
  /\ qpc = (IF entry = "probe" THEN "iface" ELSE "idle")
  /\ qres = "none" /\ timer = FALSE /\ qerr = FALSE /\ frames = 0
  /\ interfaces \in (IF entry = "gw" THEN InterfaceLists ELSE {<<>>})
  /\ gwpc = (IF entry = "gw" THEN "loop" ELSE "idle")
  /\ gwi = 0 /\ iface = 0 /\ defaultIface = "nil" /\ examined = 0 /\ rlist = <<>>
  /\ gwres = GwResult("none", NilIP)
  /\ response \in (IF entry = "dns" THEN DnsResponses ELSE {<<>>})
  /\ dpc = (IF entry = "dns" THEN "header" ELSE "idle")
  /\ doff = 0 /\ dstack = <<>> /\ dcaller = "none" /\ dcount = 0
  /\ answers = <<>> /\ pastEnd = FALSE /\ dres = "none"

\* an entry of klog
Ev(op, path) == [op |-> op, path |-> path]

\* ---------------------------------------------------------------- NewCgroup
\* the flags of the OpenFile calls
TasksOpenFlags == {"O_CREATE", "O_WRONLY", "O_TRUNC"}
SubsystemOpenFlags == {"O_WRONLY"}
SetOpenFlags == {"O_WRONLY", "O_TRUNC"}
AddProcessOpenFlags == {"O_WRONLY", "O_APPEND"}

\* NewCgroup with the subsystem loop placed before the tasks file
CreateStepSkipsTasks(step) ==
  CASE step = "mkdir" -> "submkdir"
    [] step = "open" -> "pid"
    [] step = "pid" -> "submkdir"

\* the statements of NewCgroup in program order
CreateStepAfter(step) ==
  CASE step = "mkdir" -> "open"
    [] step = "open" -> "pid"
    [] step = "pid" -> "submkdir"

\* NewCgroup leaves with an error or a panic: the deferred tasksFile.Close()
\* runs when the file was opened
CreateFails(out) ==
  /\ cres' = out
  /\ cpc' = "done"
  /\ tasksFd' = IF tasksFd = "open" THEN "closed" ELSE tasksFd

\* fileHandler.MkdirAll(cgroupPath, 0755)
CgMkdirRoot ==
  /\ cpc = "mkdir"
  /\ \E ok \in BOOLEAN :
       IF ok
       THEN /\ dirs' = MkdirAll(dirs, CgroupPath(name))
            /\ klog' = Append(klog, Ev("mkdir", CgroupPath(name)))
            /\ cpc' = CreateStepAfter("mkdir")
            /\ UNCHANGED <<cres, tasksFd>>
       ELSE /\ CreateFails("err")
            /\ UNCHANGED <<dirs, klog>>
  /\ UNCHANGED <<inputs, libvars, files, csub, apivars, runvars>>

\* fileHandler.OpenFile(tasksFilePath, O_CREATE|O_WRONLY|O_TRUNC, 0644)
CgOpenTasks ==
  /\ cpc = "open"
  /\ \E ok \in BOOLEAN :
       IF ok /\ CanOpen(dirs, files, TasksFilePath(name), TasksOpenFlags)
       THEN /\ files' = Opened(files, TasksFilePath(name), TasksOpenFlags)
            /\ klog' = Append(klog, Ev("open", TasksFilePath(name)))
            /\ tasksFd' = "open"
            /\ cpc' = CreateStepAfter("open")
            /\ UNCHANGED cres
       ELSE /\ CreateFails("err")
            /\ UNCHANGED <<files, klog>>
  /\ UNCHANGED <<inputs, libvars, dirs, csub, apivars, runvars>>

\* fmt.Fprintf(tasksFile, "%d\n", pid)
CgWritePid ==
  /\ cpc = "pid"
  /\ \E ok \in BOOLEAN :
       IF ok /\ TasksFilePath(name) \in DOMAIN files
       THEN /\ files' = Written(files, TasksFilePath(name), TasksOpenFlags, PidLine(pid))
            /\ klog' = Append(klog, Ev("write", TasksFilePath(name)))
            /\ cpc' = CreateStepAfter("pid")
            /\ UNCHANGED <<cres, tasksFd>>
       ELSE /\ CreateFails("err")
            /\ UNCHANGED <<files, klog>>
  /\ UNCHANGED <<inputs, libvars, dirs, csub, apivars, runvars>>

\* fileHandler.MkdirAll(subsystemPath, 0755) of the loop over the subsystems
CgSubMkdir ==
  /\ cpc = "submkdir"
  /\ \E ok \in BOOLEAN :
       IF ok
       THEN /\ dirs' = MkdirAll(dirs, SubsystemPath(Subsystems[csub], name))
            /\ klog' = Append(klog, Ev("mkdir", SubsystemPath(Subsystems[csub], name)))
            /\ cpc' = "apply"
            /\ UNCHANGED <<cres, tasksFd>>
       ELSE /\ CreateFails("err")
            /\ UNCHANGED <<dirs, klog>>
  /\ UNCHANGED <<inputs, libvars, files, csub, apivars, runvars>>

\* subsystem.ApplySettings(subsystemPath, spec.Resources): how it ends before
\* any file is opened.  The argument resources.CPU.Shares dereferences the
\* limit's pointer, and setSubsystemValue calls OpenFile on the subsystem's
\* fileHandler.
ApplyPanics(s) == s \notin DOMAIN res \/ handler = "nil"

\* ApplySettings and setSubsystemValue of subsystem csub
CgApply ==
  /\ cpc = "apply"
  /\ LET s == Subsystems[csub]
         f == SubsystemFile(s, name)
     IN IF ApplyPanics(s)
        THEN /\ CreateFails("panic")
             /\ UNCHANGED <<files, klog, csub>>
        ELSE \E ok \in BOOLEAN :
               IF ok /\ CanOpen(dirs, files, f, SubsystemOpenFlags)
               THEN /\ files' = Written(Opened(files, f, SubsystemOpenFlags), f,
                                        SubsystemOpenFlags, Dec(res[s]))
                    /\ klog' = Append(klog, Ev("write", f))
                    /\ csub' = csub + 1
                    /\ cpc' = IF csub = Len(Subsystems) THEN "ret" ELSE "submkdir"
                    /\ UNCHANGED <<cres, tasksFd>>
               ELSE /\ CreateFails("err")
                    /\ UNCHANGED <<files, klog, csub>>
  /\ UNCHANGED <<inputs, libvars, dirs, apivars, runvars>>

\* return &Cgroup{File: tasksFile, ...}: the deferred tasksFile.Close() runs
CgReturn ==
  /\ cpc = "ret"
  /\ cres' = "ok"
  /\ cpc' = "done"
  /\ tasksFd' = "closed"
  /\ UNCHANGED <<inputs, libvars, fsvars, csub, apivars, runvars, klog>>

NewCgroup == CgMkdirRoot \/ CgOpenTasks \/ CgWritePid \/ CgSubMkdir \/ CgApply \/ CgReturn

\* ------------------------------------------------- a caller of the package
\* factory.CreateCgroup(spec) called by a client of the package
ApiCreate ==
  /\ pc = "api" /\ cpc = "idle"
  /\ cpc' = "mkdir"
  /\ UNCHANGED <<inputs, libvars, fsvars, csub, cres, tasksFd, apivars, runvars, klog>>

\* CreateCgroup returns the handle, or the error
ApiCreated ==
  /\ pc = "api" /\ cpc = "done"
  /\ IF cres = "ok"
     THEN /\ handle' = "Built"
          /\ pc' = "ops"
     ELSE /\ handle' = handle
          /\ pc' = "apifailed"
  /\ UNCHANGED <<inputs, libvars, fsvars, cgvars, last, ops, closeCalls, attempted, succeeded,
                 defers, released, nsFd, spawned, probes, childStatus, runErr,
                 exitCode, klog, delErr>>

\* the record of a call on the handle: the handle's state before it, whether
\* it returned nil, and whether it changed the cgroup tree
Call(op, ok, changed) == [op |-> op, before |-> handle, ok |-> ok, changed |-> changed]

\* the child's pid, cmd.Process.Pid
ChildPid == pid + 1

\* what the client passes to Set
SetValues == {Dec(512)}

\* the record of a Set call: that of Call, with the control and the value
SetCall(control, value, ok, changed) ==
  [op |-> "set", before |-> handle, ok |-> ok, changed |-> changed,
   control |-> control, value |-> value]

\* Cgroup.Set(control, value): the file is root/name/control
CgSet(control, value) ==
  /\ pc = "ops" /\ ops < MaxOps
  /\ LET f == CgroupPath(name) \o <<control>>
     IN \E out \in {"ok", "open fails", "write fails"} :
          IF out # "open fails" /\ CanOpen(dirs, files, f, SetOpenFlags)
          THEN LET nf == IF out = "ok"
                         THEN Written(Opened(files, f, SetOpenFlags), f, SetOpenFlags, value)
                         ELSE Opened(files, f, SetOpenFlags)
               IN /\ files' = nf
                  /\ klog' = Append(klog, Ev("write", f))
                  /\ last' = SetCall(control, value, out = "ok", nf # files)
          ELSE /\ last' = SetCall(control, value, FALSE, FALSE)
               /\ UNCHANGED <<files, klog>>
  /\ ops' = ops + 1
  /\ UNCHANGED <<inputs, libvars, dirs, cgvars, handle, closeCalls, runvars>>

\* Cgroup.AddProcess(pid, fileHandler)
CgAddProcess(p) ==
  /\ pc = "ops" /\ ops < MaxOps
  /\ LET f == TasksFilePath(name)
     IN \E ok \in BOOLEAN :
          IF ok /\ CanOpen(dirs, files, f, AddProcessOpenFlags)
          THEN /\ files' = Written(Opened(files, f, AddProcessOpenFlags), f,
                                   AddProcessOpenFlags, PidLine(p))
               /\ klog' = Append(klog, Ev("write", f))
               /\ last' = Call("add_process", TRUE, TRUE)
          ELSE /\ last' = Call("add_process", FALSE, FALSE)
               /\ UNCHANGED <<files, klog>>
  /\ ops' = ops + 1
  /\ UNCHANGED <<inputs, libvars, dirs, cgvars, handle, closeCalls, runvars>>

\* os.File.Close: an error on a descriptor that is already closed
FileCloses(fd) == fd = "open"

\* Cgroup.Close()
CgClose ==
  /\ pc = "ops" /\ ops < MaxOps
  /\ last' = Call("close", FileCloses(tasksFd), FALSE)
  /\ closeCalls' = Append(closeCalls, FileCloses(tasksFd))
  /\ tasksFd' = "closed"
  /\ handle' = IF handle = "Built" THEN "Closed" ELSE handle
  /\ ops' = ops + 1
  /\ UNCHANGED <<inputs, libvars, fsvars, cpc, csub, cres, runvars, klog>>

\* Cgroup.Remove(): fileHandler.RemoveAll(root/name)
CgRemove ==
  /\ pc = "ops" /\ ops < MaxOps
  /\ \E ok \in BOOLEAN :
       IF ok
       THEN /\ dirs' = RemoveDirs(dirs, CgroupPath(name))
            /\ files' = RemoveFiles(files, CgroupPath(name))
            /\ klog' = Append(klog, Ev("remove", CgroupPath(name)))
            /\ handle' = "Removed"
            /\ last' = Call("remove", TRUE, RemoveDirs(dirs, CgroupPath(name)) # dirs)
       ELSE /\ last' = Call("remove", FALSE, FALSE)
            /\ UNCHANGED <<dirs, files, klog, handle>>
  /\ ops' = ops + 1
  /\ UNCHANGED <<inputs, libvars, cgvars, closeCalls, runvars>>

Api ==
  \/ ApiCreate
  \/ ApiCreated
  \/ \E c \in Controls, v \in SetValues : CgSet(c, v)
  \/ CgAddProcess(ChildPid)
  \/ CgClose
  \/ CgRemove

\* ------------------------------------------------------------ the launch
\* run without its euid check
NeedsRootNever(uid) == FALSE

\* run of cmd/spocker: os.Geteuid() != 0 ends the process with exit code 1
NeedsRoot(uid) == uid # 0

\* Run with the filesystem built before the namespace
PhaseAfterSwapped(phase) ==
  CASE phase = "cgroup" -> "filesystem"
    [] phase = "filesystem" -> "namespace"
    [] phase = "namespace" -> "network"
    [] phase = "network" -> "hostname"
    [] phase = "hostname" -> "child"

\* the phases of Run in program order
PhaseAfter(phase) ==
  CASE phase = "cgroup" -> "namespace"
    [] phase = "namespace" -> "filesystem"
    [] phase = "filesystem" -> "network"
    [] phase = "network" -> "hostname"
    [] phase = "hostname" -> "child"

\* deferred calls run in registration order
DeferredFifo(d) == d

\* the deferred calls run last-registered first
DeferredOrder(d) == [i \in 1..Len(d) |-> d[Len(d) + 1 - i]]

\* main's run: os.Exit(1) when Run returned an error, else main returns
ExitCodeOf(err) == IF err THEN 1 ELSE 0

\* main returns after it printed "Invalid CIDR": the exit code of the process
InvalidCidrExit == 0

\* main and run (cmd/spocker): net.ParseCIDR of the flag, the euid check,
\* then container.Run
RunMain ==
  /\ pc = "main"
  /\ IF ParseCIDR(cidrFlag) = ParseError
     THEN /\ pc' = "exited"
          /\ exitCode' = InvalidCidrExit
     ELSE IF NeedsRoot(euid)
     THEN /\ pc' = "exited"
          /\ exitCode' = 1
     ELSE /\ pc' = "cgroup"
          /\ exitCode' = exitCode
  /\ UNCHANGED <<inputs, libvars, fsvars, cgvars, apivars, attempted, succeeded, defers,
                 released, nsFd, spawned, probes, childStatus, runErr, klog, delErr>>

\* a phase of Run ended with an error: Run returns it
PhaseFails(phase) ==
  /\ attempted' = Append(attempted, phase)
  /\ runErr' = TRUE
  /\ pc' = "return"
  /\ UNCHANGED <<succeeded, defers>>

\* a phase of Run succeeded; deferred is the release call it defers, if any
PhaseSucceeds(phase, deferred) ==
  /\ attempted' = Append(attempted, phase)
  /\ succeeded' = succeeded \cup {phase}
  /\ defers' = defers \o deferred
  /\ pc' = PhaseAfter(phase)
  /\ UNCHANGED runErr

\* Run: factory.CreateCgroup(cgroupSpec)
RunCgroupBegin ==
  /\ pc = "cgroup" /\ cpc = "idle"
  /\ cpc' = "mkdir"
  /\ attempted' = Append(attempted, "cgroup")
  /\ UNCHANGED <<inputs, libvars, fsvars, csub, cres, tasksFd, apivars, pc, succeeded, defers,
                 released, nsFd, spawned, probes, childStatus, runErr, exitCode, klog, delErr>>

\* Run: CreateCgroup returned (defer cgroup.Close()), or panicked
RunCgroupEnd ==
  /\ pc = "cgroup" /\ cpc = "done"
  /\ IF cres = "ok"
     THEN /\ succeeded' = succeeded \cup {"cgroup"}
          /\ defers' = Append(defers, "cgroup")
          /\ pc' = PhaseAfter("cgroup")
          /\ UNCHANGED <<runErr, exitCode>>
     ELSE IF cres = "err"
     THEN /\ runErr' = TRUE
          /\ pc' = "return"
          /\ UNCHANGED <<succeeded, defers, exitCode>>
     ELSE /\ pc' = "exited"
          /\ exitCode' = 2
          /\ UNCHANGED <<succeeded, defers, runErr>>
  /\ UNCHANGED <<inputs, libvars, fsvars, cgvars, apivars, attempted, released, nsFd, spawned,
                 probes, childStatus, klog, delErr>>

\* Run: namespace.NewNamespace(namespaceSpec); defer container_namespace.Close().
\* NewNamespace spawns the helper and its deferred file.Close() closes the
\* descriptor it returns.
RunNamespace ==
  /\ pc = "namespace"
  /\ \E ok \in BOOLEAN :
       IF ok
       THEN /\ PhaseSucceeds("namespace", <<"namespace">>)
            /\ spawned' = spawned + 1
            /\ nsFd' = "closed"
       ELSE /\ PhaseFails("namespace")
            /\ UNCHANGED <<spawned, nsFd>>
  /\ UNCHANGED <<inputs, libvars, fsvars, cgvars, apivars, released, probes, childStatus,
                 exitCode, klog, delErr>>

\* Run: filesystem.NewFilesystem(fsRoot); nothing is deferred
RunFilesystem ==
  /\ pc = "filesystem"
  /\ IF fsRootKind = "dir"
     THEN PhaseSucceeds("filesystem", <<>>)
     ELSE PhaseFails("filesystem")
  /\ UNCHANGED <<inputs, libvars, fsvars, cgvars, apivars, released, nsFd, spawned, probes,
                 childStatus, exitCode, klog, delErr>>

\* Run: network.CreateNetwork(networkConfig, handler); defer DeleteNetwork.
\* k addresses are probed; the gateway and DNS lookups follow.
RunNetwork ==
  /\ pc = "network"
  /\ IF ifaceExists
     THEN /\ PhaseFails("network")
          /\ UNCHANGED probes
     ELSE \E k \in 1..ProbeLimit, free \in BOOLEAN, ok \in BOOLEAN :
            /\ ~free => k = ProbeLimit
            /\ probes' = probes + k
            /\ IF free /\ ok
               THEN PhaseSucceeds("network", <<"network">>)
               ELSE PhaseFails("network")
  /\ UNCHANGED <<inputs, libvars, fsvars, cgvars, apivars, released, nsFd, spawned,
                 childStatus, exitCode, klog, delErr>>

\* the commands createCommand accepts, as the package declares them
AllowedCommands == {"ls", "echo", "mkdir", "/bin/sh", "/proc/self/exe"}

\* isCommandAllowed(cmd) under the declared AllowedCommands
isCommandAllowed(cmd) == cmd \in AllowedCommands

\* Run: namespace.SetHostname("your-container-hostname"), which runs
\* sudo hostnamectl through createCommand.  AllowedCommands is a package
\* variable: allowed is what it holds for "sudo" at the call, the declared
\* value or TRUE when a caller has extended the map.
RunHostname ==
  /\ pc = "hostname"
  /\ \E allowed \in {isCommandAllowed("sudo"), TRUE}, ok \in BOOLEAN :
       LET out == IF ~allowed THEN "invalid command"
                  ELSE IF ok THEN "ok" ELSE "run fails"
       IN /\ spawned' = IF out = "invalid command" THEN spawned ELSE spawned + 1
          /\ IF out = "ok"
             THEN PhaseSucceeds("hostname", <<>>)
             ELSE PhaseFails("hostname")
  /\ UNCHANGED <<inputs, libvars, fsvars, cgvars, apivars, released, nsFd, probes,
                 childStatus, exitCode, klog, delErr>>

\* Run: cmd.Start()
RunChildStart ==
  /\ pc = "child"
  /\ \E ok \in BOOLEAN :
       IF ok
       THEN /\ attempted' = Append(attempted, "child")
            /\ spawned' = spawned + 1
            /\ pc' = "wait"
            /\ UNCHANGED runErr
       ELSE /\ PhaseFails("child")
            /\ UNCHANGED spawned
  /\ UNCHANGED <<inputs, libvars, fsvars, cgvars, apivars, succeeded, defers, released, nsFd,
                 probes, childStatus, exitCode, klog, delErr>>

\* Run: cmd.Process.Wait(); its error is nil whatever the child's status
RunWait ==
  /\ pc = "wait"
  /\ \E s \in 0..MaxStatus, ok \in BOOLEAN :
       IF ok
       THEN /\ childStatus' = s
            /\ succeeded' = succeeded \cup {"child"}
            /\ UNCHANGED runErr
       ELSE /\ runErr' = TRUE
            /\ UNCHANGED <<childStatus, succeeded>>
  /\ pc' = "return"
  /\ UNCHANGED <<inputs, libvars, fsvars, cgvars, apivars, attempted, defers, released, nsFd,
                 spawned, probes, exitCode, klog, delErr>>

\* Run returns: its deferred calls run (the error of DeleteNetwork is only
\* logged), then run (cmd/spocker) ends the process
RunReturn ==
  /\ pc = "return"
  /\ released' = DeferredOrder(defers)
  /\ \E failed \in {"none", "link fails", "del fails"} :
       delErr' = IF "network" \in {defers[i] : i \in 1..Len(defers)}
                 THEN DeleteNetworkErr(ifaces, failed) ELSE delErr
  /\ tasksFd' = IF "cgroup" \in {defers[i] : i \in 1..Len(defers)} THEN "closed" ELSE tasksFd
  /\ exitCode' = ExitCodeOf(runErr)
  /\ pc' = "exited"
  /\ UNCHANGED <<inputs, libvars, fsvars, cpc, csub, cres, apivars, attempted, succeeded, defers,
                 nsFd, spawned, probes, childStatus, runErr, klog>>

Run ==
  \/ RunMain
  \/ RunCgroupBegin
  \/ RunCgroupEnd
  \/ RunNamespace
  \/ RunFilesystem
  \/ RunNetwork
  \/ RunHostname
  \/ RunChildStart
  \/ RunWait
  \/ RunReturn

\* ------------------------------------------------- cgroup parameter calls
\* ensureCgroupPathPrefix with no check at all
ensureNoPrefix(cgroupPath) == TRUE

\* ensureCgroupPathPrefix: TRUE when it returns nil
ensureCgroupPathPrefix(cgroupPath) == HasPrefix(cgroupPath, CgroupPrefix)

\* SetCgroupParam(cgroupPath, param, value, fileHandler)
SetCgroupParam(cgroupPath, param, value) ==
  /\ pc = "param"
  /\ IF ~ensureCgroupPathPrefix(cgroupPath)
     THEN /\ plast' = ParamCall("set", cgroupPath, param, "InvalidPath", {})
          /\ UNCHANGED <<hostFiles, hostIo>>
     ELSE LET paramFile == FilepathJoin(cgroupPath, param)
          IN \E out \in {"ok", "open fails", "write fails"} :
               IF out # "open fails" /\ paramFile \in DOMAIN hostFiles
               THEN LET io == {IoEv("open for writing", paramFile)}
                                \cup (IF out = "ok" THEN {IoEv("write", paramFile)} ELSE {})
                    IN /\ hostFiles' = [hostFiles EXCEPT ![paramFile] =
                                           IF out = "ok" THEN value ELSE <<>>]
                       /\ hostIo' = hostIo \cup io
                       /\ plast' = ParamCall("set", cgroupPath, param,
                                             IF out = "ok" THEN "nil" ELSE "IoError", io)
               ELSE /\ plast' = ParamCall("set", cgroupPath, param, "IoError", {})
                    /\ UNCHANGED <<hostFiles, hostIo>>
  /\ UNCHANGED <<inputs, launchvars, clientvars, fsysvars, cgracevars, netracevars, ipvars, nsvars>>

\* GetCgroupParam(cgroupPath, param, fileHandler)
GetCgroupParam(cgroupPath, param) ==
  /\ pc = "param"
  /\ IF ~ensureCgroupPathPrefix(cgroupPath)
     THEN /\ plast' = ParamCall("get", cgroupPath, param, "InvalidPath", {})
          /\ UNCHANGED hostIo
     ELSE LET filePath == FilepathJoin(cgroupPath, param)
          IN \E ok \in BOOLEAN :
               IF ok /\ filePath \in DOMAIN hostFiles
               THEN /\ hostIo' = hostIo \cup {IoEv("read", filePath)}
                    /\ plast' = ParamCall("get", cgroupPath, param, "nil",
                                          {IoEv("read", filePath)})
               ELSE /\ plast' = ParamCall("get", cgroupPath, param, "IoError", {})
                    /\ UNCHANGED hostIo
  /\ UNCHANGED <<inputs, launchvars, clientvars, fsysvars, cgracevars, netracevars, ipvars, nsvars, hostFiles>>

Param ==
  \/ \E p \in ParamPaths, n \in ParamNames, v \in ParamValues : SetCgroupParam(p, n, v)
  \/ \E p \in ParamPaths, n \in ParamNames : GetCgroupParam(p, n)

\* ---------------------------------------------------------- Filesystem calls
\* filepath.Join(fs.Root, path)
RootJoin(path) == FilepathJoin(root, path)

\* the directory part of a cleaned rooted path
ParentOf(p) == AbsPath(SubSeq(PathElems(p), 1, Len(PathElems(p)) - 1))
\* p is dir or lies beneath it
Beneath(dir, p) == IsPrefix(PathElems(dir), PathElems(p))
Exists(p) == p \in DOMAIN hostFiles \/ p \in hostDirs

\* a call that only names the path to the kernel (chown, chmod, mount, umount);
\* usable: the kernel accepts the path for it
FsTouch(op, path, usable) ==
  /\ pc = "fs" /\ calls < MaxCalls
  /\ calls' = calls + 1
  /\ LET p == RootJoin(path)
     IN \E ok \in BOOLEAN :
          IF ok /\ usable
          THEN flast' = FsCall(op, <<path>>, <<p>>, "nil", {IoEv(op, p)}, <<>>)
          ELSE flast' = FsCall(op, <<path>>, <<p>>, "IoError", {}, <<>>)
  /\ UNCHANGED <<inputs, launchvars, clientvars, paramvars, cgracevars, netracevars, ipvars, nsvars, hostDirs>>

\* Filesystem.Mount(mount): syscall.Mount on filepath.Join(fs.Root, mount.Target)
FsMount(target) == FsTouch("mount", target, RootJoin(target) \in hostDirs)
\* Filesystem.Unmount(target)
FsUnmount(target) == FsTouch("unmount", target, RootJoin(target) \in hostDirs)
\* Filesystem.SetFileOwnership(path, uid, gid)
FsSetFileOwnership(path) == FsTouch("chown", path, Exists(RootJoin(path)))
\* Filesystem.SetFilePermissions(path, mode)
FsSetFilePermissions(path) == FsTouch("chmod", path, Exists(RootJoin(path)))

\* Filesystem.CreateDir(path): os.MkdirAll
FsCreateDir(path) ==
  /\ pc = "fs" /\ calls < MaxCalls
  /\ calls' = calls + 1
  /\ LET p == RootJoin(path)
         made == {AbsPath(SubSeq(PathElems(p), 1, k)) : k \in 0..Len(PathElems(p))}
     IN \E ok \in BOOLEAN :
          IF ok /\ made \cap DOMAIN hostFiles = {}
          THEN /\ hostDirs' = hostDirs \cup made
               /\ flast' = FsCall("create_dir", <<path>>, <<p>>, "nil", {IoEv("mkdir", p)}, <<>>)
          ELSE /\ flast' = FsCall("create_dir", <<path>>, <<p>>, "IoError", {}, <<>>)
               /\ UNCHANGED hostDirs
  /\ UNCHANGED <<inputs, launchvars, clientvars, paramvars, cgracevars, netracevars, ipvars, nsvars>>

\* Filesystem.RemoveDir(path): os.RemoveAll
FsRemoveDir(path) ==
  /\ pc = "fs" /\ calls < MaxCalls
  /\ calls' = calls + 1
  /\ LET p == RootJoin(path)
     IN \E ok \in BOOLEAN :
          IF ok
          THEN /\ hostDirs' = {d \in hostDirs : ~Beneath(p, d)}
               /\ hostFiles' = [f \in {g \in DOMAIN hostFiles : ~Beneath(p, g)} |-> hostFiles[f]]
               /\ flast' = FsCall("remove_dir", <<path>>, <<p>>, "nil", {IoEv("remove", p)}, <<>>)
          ELSE /\ flast' = FsCall("remove_dir", <<path>>, <<p>>, "IoError", {}, <<>>)
               /\ UNCHANGED <<hostDirs, hostFiles>>
  /\ UNCHANGED <<inputs, launchvars, clientvars, hostIo, plast, cgracevars, netracevars, ipvars, nsvars>>

\* os.Create can make or truncate p
CanCreate(p) == ParentOf(p) \in hostDirs /\ p \notin hostDirs

\* Filesystem.CreateFile(path): os.Create
FsCreateFile(path) ==
  /\ pc = "fs" /\ calls < MaxCalls
  /\ calls' = calls + 1
  /\ LET p == RootJoin(path)
     IN \E ok \in BOOLEAN :
          IF ok /\ CanCreate(p)
          THEN /\ hostFiles' = PutFile(hostFiles, p, <<>>)
               /\ flast' = FsCall("create_file", <<path>>, <<p>>, "nil", {IoEv("create", p)}, <<>>)
          ELSE /\ flast' = FsCall("create_file", <<path>>, <<p>>, "IoError", {}, <<>>)
               /\ UNCHANGED hostFiles
  /\ UNCHANGED <<inputs, launchvars, clientvars, hostIo, plast, cgracevars, netracevars, ipvars, nsvars, hostDirs>>

\* Filesystem.RemoveFile(path): os.Remove of a file or an empty directory
FsRemoveFile(path) ==
  /\ pc = "fs" /\ calls < MaxCalls
  /\ calls' = calls + 1
  /\ LET p == RootJoin(path)
         empty == \A q \in (DOMAIN hostFiles) \cup hostDirs : Beneath(p, q) => q = p
     IN \E ok \in BOOLEAN :
          IF ok /\ Exists(p) /\ empty
          THEN /\ hostDirs' = hostDirs \ {p}
               /\ hostFiles' = [f \in DOMAIN hostFiles \ {p} |-> hostFiles[f]]
               /\ flast' = FsCall("remove_file", <<path>>, <<p>>, "nil", {IoEv("remove", p)}, <<>>)
          ELSE /\ flast' = FsCall("remove_file", <<path>>, <<p>>, "IoError", {}, <<>>)
               /\ UNCHANGED <<hostDirs, hostFiles>>
  /\ UNCHANGED <<inputs, launchvars, clientvars, hostIo, plast, cgracevars, netracevars, ipvars, nsvars>>

\* what io.Copy reads from the source: the content the source has once
\* os.Create has made or truncated the destination
Copied(created, srcPath) == created[srcPath]

\* Filesystem.CopyFile(src, dst)
FsCopyFile(src, dst) ==
  /\ pc = "fs" /\ calls < MaxCalls
  /\ calls' = calls + 1
  /\ LET srcPath == RootJoin(src)
         dstPath == RootJoin(dst)
         paths == <<srcPath, dstPath>>
         before == IF srcPath \in DOMAIN hostFiles THEN hostFiles[srcPath] ELSE <<>>
         created == PutFile(hostFiles, dstPath, <<>>)
     IN \E out \in {"ok", "open fails", "create fails", "copy fails"} :
          IF out = "open fails" \/ ~Exists(srcPath) \/ srcPath \in hostDirs
          THEN /\ flast' = FsCall("copy_file", <<src, dst>>, paths, "IoError", {}, before)
               /\ UNCHANGED hostFiles
          ELSE IF out = "create fails" \/ ~CanCreate(dstPath)
          THEN /\ flast' = FsCall("copy_file", <<src, dst>>, paths, "IoError",
                                  {IoEv("open", srcPath)}, before)
               /\ UNCHANGED hostFiles
          ELSE IF out = "copy fails"
          THEN /\ flast' = FsCall("copy_file", <<src, dst>>, paths, "IoError",
                                  {IoEv("open", srcPath), IoEv("create", dstPath)}, before)
               /\ hostFiles' = created
          ELSE /\ flast' = FsCall("copy_file", <<src, dst>>, paths, "nil",
                                  {IoEv("open", srcPath), IoEv("create", dstPath)}, before)
               /\ hostFiles' = PutFile(created, dstPath, Copied(created, srcPath))
  /\ UNCHANGED <<inputs, launchvars, clientvars, hostIo, plast, cgracevars, netracevars, ipvars, nsvars, hostDirs>>

\* filepath.Abs of a rooted path cleans it
FilepathAbs(p) == Clean(p)

\* Filesystem.GetAbsolutePath(path)
FsGetAbsolutePath(path) ==
  /\ pc = "fs" /\ calls < MaxCalls
  /\ calls' = calls + 1
  /\ flast' = FsCall("abs", <<path>>, <<FilepathAbs(RootJoin(path))>>, "nil", {}, <<>>)
  /\ UNCHANGED <<inputs, launchvars, clientvars, paramvars, cgracevars, netracevars, ipvars, nsvars, hostDirs>>

Filesystem ==
  \/ \E r \in RelPaths : FsMount(r)
  \/ \E r \in RelPaths : FsUnmount(r)
  \/ \E r \in RelPaths : FsCreateDir(r)
  \/ \E r \in RelPaths : FsRemoveDir(r)
  \/ \E r \in RelPaths : FsCreateFile(r)
  \/ \E r \in RelPaths : FsRemoveFile(r)
  \/ \E a, b \in RelPaths : FsCopyFile(a, b)
  \/ \E r \in RelPaths : FsSetFileOwnership(r)
  \/ \E r \in RelPaths : FsSetFilePermissions(r)
  \/ \E r \in RelPaths : FsGetAbsolutePath(r)

\* ------------------------------------------- two launches, one cgroup name
\* os.Getpid() of launch p
PidOf(p) == pid + p - 1

\* the variables of the single launch and of the other callers
others == <<inputs, cgvars, apivars, runvars, klog, paramvars, fsysvars, ipvars, nsvars, clientvars>>

\* NewCgroup of launch p ends with an error or a panic
LFails(p, out) ==
  /\ lres' = [lres EXCEPT ![p] = out]
  /\ lpc' = [lpc EXCEPT ![p] = "done"]
  /\ UNCHANGED <<dirs, files, lsub>>

\* launch p: fileHandler.MkdirAll(cgroupPath, 0755)
LMkdirRoot(p) ==
  /\ pc = "cgrace" /\ lpc[p] = "mkdir"
  /\ \E ok \in BOOLEAN :
       IF ok
       THEN /\ dirs' = MkdirAll(dirs, CgroupPath(name))
            /\ lpc' = [lpc EXCEPT ![p] = CreateStepAfter("mkdir")]
            /\ UNCHANGED <<files, lsub, lres>>
       ELSE LFails(p, "err")
  /\ UNCHANGED <<others, netracevars>>

\* launch p: fileHandler.OpenFile(tasksFilePath, O_CREATE|O_WRONLY|O_TRUNC, 0644)
LOpenTasks(p) ==
  /\ pc = "cgrace" /\ lpc[p] = "open"
  /\ \E ok \in BOOLEAN :
       IF ok /\ CanOpen(dirs, files, TasksFilePath(name), TasksOpenFlags)
       THEN /\ files' = Opened(files, TasksFilePath(name), TasksOpenFlags)
            /\ lpc' = [lpc EXCEPT ![p] = CreateStepAfter("open")]
            /\ UNCHANGED <<dirs, lsub, lres>>
       ELSE LFails(p, "err")
  /\ UNCHANGED <<others, netracevars>>

\* launch p: fmt.Fprintf(tasksFile, "%d\n", pid) through its own descriptor
LWritePid(p) ==
  /\ pc = "cgrace" /\ lpc[p] = "pid"
  /\ \E ok \in BOOLEAN :
       IF ok /\ TasksFilePath(name) \in DOMAIN files
       THEN /\ files' = Written(files, TasksFilePath(name), TasksOpenFlags, PidLine(PidOf(p)))
            /\ lpc' = [lpc EXCEPT ![p] = CreateStepAfter("pid")]
            /\ UNCHANGED <<dirs, lsub, lres>>
       ELSE LFails(p, "err")
  /\ UNCHANGED <<others, netracevars>>

\* launch p: fileHandler.MkdirAll(subsystemPath, 0755)
LSubMkdir(p) ==
  /\ pc = "cgrace" /\ lpc[p] = "submkdir"
  /\ \E ok \in BOOLEAN :
       IF ok
       THEN /\ dirs' = MkdirAll(dirs, SubsystemPath(Subsystems[lsub[p]], name))
            /\ lpc' = [lpc EXCEPT ![p] = "apply"]
            /\ UNCHANGED <<files, lsub, lres>>
       ELSE LFails(p, "err")
  /\ UNCHANGED <<others, netracevars>>

\* launch p: ApplySettings and setSubsystemValue of its subsystem
LApply(p) ==
  /\ pc = "cgrace" /\ lpc[p] = "apply"
  /\ LET sub == Subsystems[lsub[p]]
         f == SubsystemFile(sub, name)
     IN IF ApplyPanics(sub)
        THEN LFails(p, "panic")
        ELSE \E ok \in BOOLEAN :
               IF ok /\ CanOpen(dirs, files, f, SubsystemOpenFlags)
               THEN /\ files' = Written(Opened(files, f, SubsystemOpenFlags), f,
                                        SubsystemOpenFlags, Dec(res[sub]))
                    /\ lsub' = [lsub EXCEPT ![p] = lsub[p] + 1]
                    /\ lpc' = [lpc EXCEPT ![p] = IF lsub[p] = Len(Subsystems)
                                                 THEN "ret" ELSE "submkdir"]
                    /\ UNCHANGED <<dirs, lres>>
               ELSE LFails(p, "err")
  /\ UNCHANGED <<others, netracevars>>

\* launch p: NewCgroup returns its handle
LReturn(p) ==
  /\ pc = "cgrace" /\ lpc[p] = "ret"
  /\ lres' = [lres EXCEPT ![p] = "ok"]
  /\ lpc' = [lpc EXCEPT ![p] = "done"]
  /\ UNCHANGED <<others, netracevars, dirs, files, lsub>>

CgroupRace ==
  \E p \in Launches :
    \/ LMkdirRoot(p)
    \/ LOpenTasks(p)
    \/ LWritePid(p)
    \/ LSubMkdir(p)
    \/ LApply(p)
    \/ LReturn(p)

\* ------------------------------------------ two launches, one network name
\* launch p: CreateNetwork's handler.InterfaceByName(config.Name)
NCheck(p) ==
  /\ pc = "netrace" /\ npc[p] = "check"
  /\ IF NetName \in ifaces
     THEN /\ nres' = [nres EXCEPT ![p] = "AlreadyExists"]
          /\ npc' = [npc EXCEPT ![p] = "done"]
     ELSE /\ npc' = [npc EXCEPT ![p] = "build"]
          /\ UNCHANGED nres
  /\ UNCHANGED <<others, fsvars, cgracevars, ifaces>>

\* launch p: the rest of CreateNetwork (address, gateway, DNS), which returns
\* the Network value; no interface is made
NBuild(p) ==
  /\ pc = "netrace" /\ npc[p] = "build"
  /\ \E ok \in BOOLEAN :
       nres' = [nres EXCEPT ![p] = IF ok THEN "live" ELSE "err"]
  /\ npc' = [npc EXCEPT ![p] = IF nres'[p] = "live" THEN "held" ELSE "done"]
  /\ UNCHANGED <<others, fsvars, cgracevars, ifaces>>

\* launch p: Run's deferred DeleteNetwork(container_network.Name)
NDelete(p) ==
  /\ pc = "netrace" /\ npc[p] = "held"
  /\ \E ok \in BOOLEAN :
       ifaces' = IF ok /\ NetName \in ifaces THEN ifaces \ {NetName} ELSE ifaces
  /\ nres' = [nres EXCEPT ![p] = "deleted"]
  /\ npc' = [npc EXCEPT ![p] = "done"]
  /\ UNCHANGED <<others, fsvars, cgracevars>>

NetworkRace == \E p \in Launches : NCheck(p) \/ NBuild(p) \/ NDelete(p)

\* ------------------------------------------------------------ GetAvailableIP
\* an int64 as its 64 bits, bit 0 the lowest and bit 63 the sign
Int64Width == 64

\* 1 << n on an int64: bit n is set, and no bit when n >= 64
Int64Shl1(n) == [b \in 0..(Int64Width - 1) |-> IF b = n THEN 1 ELSE 0]

\* big.Int.Sign of big.NewInt(x)
Int64Sign(x) ==
  IF x[Int64Width - 1] = 1 THEN -1
  ELSE IF \E b \in 0..(Int64Width - 2) : x[b] = 1 THEN 1 ELSE 0

\* the value of a positive int64 with one bit set
Int64Value(x) == 2 ^ (CHOOSE b \in 0..(Int64Width - 2) : x[b] = 1)

\* ipSpace := big.NewInt(1 << uint(bits-ones))
IpSpace(c) == Int64Shl1(c.bits - c.ones)

\* ip := net.IP(ipInt.Bytes()) with ipInt = randInt + SetBytes(ipRange.To16())
Candidate(c, randInt) == BigBytes(AddToBytes(To16(MaskIP(c.ip, c.ones)), randInt))

\* IsIPInUse(ip): the ARP request can be built for an IPv4 address only, and
\* every error makes the address count as in use
IsIPInUse(ip) == IF To4(ip) # <<>> THEN BOOLEAN ELSE {TRUE}

\* the loop condition with one iteration more
LoopContinuesOnceMore(i) == i <= ProbeLimit

\* for i := 0; i < 10; i++
LoopContinues(i) == i < ProbeLimit

\* one iteration of GetAvailableIP's loop; rand.Int panics when ipSpace is
\* not positive
GetAvailableIPTry ==
  /\ pc = "ip" /\ ipres.status = "none" /\ LoopContinues(tries)
  /\ IF Int64Sign(IpSpace(cidr)) <= 0
     THEN /\ ipres' = IpResult("panic", <<>>)
          /\ UNCHANGED <<tries, iplog, probed>>
     ELSE \E randInt \in 0..(Int64Value(IpSpace(cidr)) - 1) :
            LET ip == Candidate(cidr, randInt)
            IN \E inUse \in IsIPInUse(ip) :
                 /\ iplog' = Append(iplog, inUse)
                 /\ probed' = ip
                 /\ IF ~inUse
                    THEN /\ ipres' = IpResult("ok", ip)
                         /\ UNCHANGED tries
                    ELSE /\ tries' = tries + 1
                         /\ UNCHANGED ipres
  /\ UNCHANGED <<inputs, launchvars, clientvars, paramvars, fsysvars, cgracevars, netracevars, nsvars>>

\* GetAvailableIP after ten addresses in use: "no available IP address"
GetAvailableIPExhausted ==
  /\ pc = "ip" /\ ipres.status = "none" /\ ~LoopContinues(tries)
  /\ ipres' = IpResult("ResourceExhausted", <<>>)
  /\ UNCHANGED <<inputs, launchvars, clientvars, paramvars, fsysvars, cgracevars, netracevars, nsvars,
                 tries, iplog, probed>>

GetAvailableIP == GetAvailableIPTry \/ GetAvailableIPExhausted

\* ------------------------------------------------------------ namespace calls
\* cmd.SysProcAttr of the helper: Cloneflags and Unshareflags
HelperCloneflags == {"CLONE_NEWUTS", "CLONE_NEWPID", "CLONE_NEWNS"}
HelperUnshareflags == {"CLONE_NEWNS"}

\* NewNamespace(spec) called by a client of the package: the pipe, the helper
\* started from /proc/self/exe, and the deferred file.Close() that closes the
\* descriptor of the Namespace it returns
NsNew ==
  /\ pc = "ns" /\ nsFd = "none"
  /\ \E out \in {"ok", "pipe fails", "invalid command", "start fails"} :
       IF out = "ok"
       THEN /\ nsFd' = "closed"
            /\ spawned' = spawned + 1
            /\ helperNs' = HelperCloneflags \cup HelperUnshareflags
            /\ pc' = pc
       ELSE /\ pc' = "nsfailed"
            /\ UNCHANGED <<nsFd, spawned, helperNs>>
  /\ UNCHANGED <<inputs, fsvars, cgvars, apivars, klog, attempted, succeeded, defers,
                 released, probes, childStatus, runErr, exitCode,
                 paramvars, fsysvars, cgracevars, netracevars, ipvars, nsType, nsCloses,
                 hostname, hlast, clientvars, delErr>>

\* Namespace.Close(): ns.File.Close()
NsClose ==
  /\ pc = "ns" /\ nsFd # "none" /\ Len(nsCloses) < MaxOps
  /\ nsCloses' = Append(nsCloses, FileCloses(nsFd))
  /\ nsFd' = "closed"
  /\ UNCHANGED <<inputs, fsvars, cgvars, apivars, klog, pc, attempted, succeeded, defers,
                 released, spawned, probes, childStatus, runErr, exitCode,
                 paramvars, fsysvars, cgracevars, netracevars, ipvars, hostname, hlast,
                 nsType, helperNs, clientvars, delErr>>

\* SetHostname(hostname): createCommand("sudo", "hostnamectl", "set-hostname",
\* hostname) and cmd.Run()
NsSetHostname(h) ==
  /\ pc = "ns" /\ hlast.n < MaxOps
  /\ \E out \in {"ok", "invalid command", "run fails"} :
       /\ hlast' = HostnameCall(hlast.n + 1, h, IF out = "ok" THEN "nil" ELSE out,
                                IF out = "invalid command" THEN 0 ELSE 1)
       /\ hostname' = IF out = "ok" THEN h ELSE hostname
  /\ UNCHANGED <<inputs, launchvars, clientvars, paramvars, fsysvars, cgracevars, netracevars, ipvars,
                 nsCloses, nsType, helperNs>>

Namespace == NsNew \/ NsClose \/ \E h \in Hostnames : NsSetHostname(h)

\* -------------------------------------------------- the network manager
\* the record of a network call: the network's state, the link's flag and the
\* tables before it, and its error
NetCall(op, err) == NetRecord(op, FALSE, netState, err, linkUp, addrs, routes)
\* the record of a CreateNetwork call with config.DHCP as given
CreateCall(dhcp, err) == NetRecord("create", dhcp, netState, err, linkUp, addrs, routes)

\* what a network action leaves alone
netrest == <<inputs, launchvars, paramvars, fsysvars, cgracevars, npc, nres, ipvars, nsvars,
             procvars, toolvars>>

\* Network.Gateway after CreateNetwork: config.Gateway, or what
\* GetDefaultGateway found, which may be nil
GatewayOf(cfgGateway, found) == IF cfgGateway = NilIP THEN found ELSE cfgGateway
\* len(Network.DNS) after CreateNetwork: config.DNS when it is not nil, else
\* the one address of GetDefaultDNS
DnsOf(cfgDns) == IF cfgDns = "nil" THEN 1 ELSE IF cfgDns = "empty" THEN 0 ELSE 1

\* addresses GetAvailableIP may hand to CreateNetwork for the client's CIDR
AssignedIPs == {Candidate(cidr, r) : r \in 1..2}

\* config.IPNet.IP after the static branch: ip, err := GetAvailableIP(...);
\* on success config.IPNet.IP = ip
AfterGetAvailableIP(base, found, ip) == IF found THEN ip ELSE base

\* CreateNetwork(config, handler) up to its return, or up to server.Serve()
\* when config.DHCP is set: Serve reads requests in the calling goroutine
NetCreate(dhcp, cfgGateway, cfgDns) ==
  /\ pc = "net" /\ kpc = "idle" /\ network = NoNetwork /\ ncalls < MaxNetCalls
  /\ ncalls' = ncalls + 1
  /\ IF NetName \in ifaces
     THEN /\ nlast' = CreateCall(dhcp, "AlreadyExists")
          /\ UNCHANGED <<network, netState, kpc, dhcpd, cfgIP>>
     ELSE IF dhcp
     THEN \E ok \in BOOLEAN :
            IF ok
            THEN /\ kpc' = "serve"
                 /\ dhcpd' = "serving"
                 /\ UNCHANGED <<network, netState, nlast, cfgIP>>
            ELSE /\ nlast' = CreateCall(dhcp, "failed to create DHCP server")
                 /\ UNCHANGED <<network, netState, kpc, dhcpd, cfgIP>>
     ELSE \E out \in {"ok", "no address", "gateway fails", "dns fails"}, found \in {NilIP, Gateway},
             ip \in AssignedIPs :
            /\ out = "gateway fails" => cfgGateway = NilIP
            /\ out = "dns fails" => cfgDns = "nil"
            /\ cfgGateway # NilIP => found = NilIP
            /\ cfgIP' = AfterGetAvailableIP(cfgIP, out # "no address", ip)
            /\ IF out = "ok"
               THEN /\ network' = Network(GatewayOf(cfgGateway, found), DnsOf(cfgDns), dhcp)
                    /\ netState' = "Created"
                    /\ nlast' = CreateCall(dhcp, "nil")
               ELSE /\ nlast' = CreateCall(dhcp, out)
                    /\ UNCHANGED <<network, netState>>
            /\ UNCHANGED <<kpc, dhcpd>>
  /\ UNCHANGED <<netrest, ifaces, linkUp, addrs, routes>>

\* server.Serve() returns: its read failed, its deferred Close stops the
\* listener, and CreateNetwork returns "failed to start DHCP server"
NetServeReturns ==
  /\ pc = "net" /\ kpc = "serve"
  /\ kpc' = "idle"
  /\ dhcpd' = "stopped"
  /\ nlast' = CreateCall(TRUE, "failed to start DHCP server")
  /\ UNCHANGED <<netrest, cfgIP, ifaces, network, netState, linkUp, addrs, routes, ncalls>>

\* a caller builds the Network value itself, as TestConnectToNetwork does
NetLiteral ==
  /\ pc = "net" /\ kpc = "idle" /\ network = NoNetwork
  /\ \E gw \in {NilIP, Gateway}, ndns \in 0..1 : network' = Network(gw, ndns, FALSE)
  /\ UNCHANGED <<netrest, cfgIP, ifaces, netState, linkUp, addrs, routes, kpc, dhcpd, nlast, ncalls>>

\* createTestNetwork(ifName): netlink.LinkAdd of a dummy link, which is down
NetLinkAdd ==
  /\ pc = "net" /\ kpc = "idle" /\ NetName \notin ifaces
  /\ ifaces' = ifaces \cup {NetName}
  /\ linkUp' = FALSE
  /\ addrs' = {}
  /\ UNCHANGED <<netrest, cfgIP, network, netState, routes, kpc, dhcpd, nlast, ncalls>>

\* the default route of ConnectToNetwork: Dst nil, Gw the gateway
DefaultRoute(gw) == [dst |-> NilIP, gw |-> gw]


\* ConnectToNetwork stops at step failed ("none": at no step): the error it
\* returns, and the addresses and routes it leaves.  Nothing is undone.
Connect(n, failed) ==
  IF NetName \notin ifaces THEN [err |-> "network not found", addrs |-> addrs, routes |-> routes]
  ELSE IF failed = "link" THEN [err |-> "failed to get network link", addrs |-> addrs, routes |-> routes]
  ELSE IF failed = "addr" \/ NetAddr \in addrs
  THEN [err |-> "failed to assign IP address", addrs |-> addrs, routes |-> routes]
  ELSE LET as == addrs \cup {NetAddr}
       IN IF n.gateway # NilIP /\ (failed = "route" \/ DefaultRoute(n.gateway) \in routes)
          THEN [err |-> "failed to add default route", addrs |-> as, routes |-> routes]
          ELSE LET rs == IF n.gateway # NilIP THEN routes \cup {DefaultRoute(n.gateway)}
                         ELSE routes
               IN IF n.dns > 0 /\ failed = "dns"
                  THEN [err |-> "failed to configure DNS", addrs |-> as, routes |-> rs]
                  ELSE [err |-> "nil", addrs |-> as, routes |-> rs]

\* ConnectToNetwork(containerID, network)
NetConnect ==
  /\ pc = "net" /\ kpc = "idle" /\ network # NoNetwork /\ ncalls < MaxNetCalls
  /\ ncalls' = ncalls + 1
  /\ \E failed \in {"none", "link", "addr", "route", "dns"} :
       LET r == Connect(network, failed)
       IN /\ addrs' = r.addrs
          /\ routes' = r.routes
          /\ nlast' = NetCall("connect", r.err)
          /\ netState' = IF r.err = "nil" THEN "Connected" ELSE netState
  /\ UNCHANGED <<netrest, cfgIP, ifaces, network, linkUp, kpc, dhcpd>>

\* a disconnect that also removes the link's addresses and the routes
DisconnectFlushing(failed) ==
  IF NetName \notin ifaces \/ failed # "none"
  THEN [err |-> "network not found", up |-> linkUp, addrs |-> addrs, routes |-> routes]
  ELSE [err |-> "nil", up |-> FALSE, addrs |-> {}, routes |-> {}]

\* DisconnectFromNetwork stops at step failed: its error, and the link's
\* flag, addresses and routes it leaves
Disconnect(failed) ==
  IF NetName \notin ifaces
  THEN [err |-> "network not found", up |-> linkUp, addrs |-> addrs, routes |-> routes]
  ELSE IF failed = "link"
  THEN [err |-> "failed to get network link", up |-> linkUp, addrs |-> addrs, routes |-> routes]
  ELSE IF failed = "down"
  THEN [err |-> "failed to bring down network link", up |-> linkUp, addrs |-> addrs,
        routes |-> routes]
  ELSE [err |-> "nil", up |-> FALSE, addrs |-> addrs, routes |-> routes]

\* DisconnectFromNetwork(containerID, networkName)
NetDisconnect ==
  /\ pc = "net" /\ kpc = "idle" /\ ncalls < MaxNetCalls
  /\ ncalls' = ncalls + 1
  /\ \E failed \in {"none", "link", "down"} :
       LET r == Disconnect(failed)
       IN /\ linkUp' = r.up
          /\ addrs' = r.addrs
          /\ routes' = r.routes
          /\ nlast' = NetCall("disconnect", r.err)
          /\ netState' = IF r.err = "nil" /\ netState = "Connected" THEN "Disconnected"
                         ELSE netState
  /\ UNCHANGED <<netrest, cfgIP, ifaces, network, kpc, dhcpd>>

\* DeleteNetwork(networkName): netlink.LinkDel removes the link and with it
\* the addresses it carried
NetDelete ==
  /\ pc = "net" /\ kpc = "idle" /\ ncalls < MaxNetCalls
  /\ ncalls' = ncalls + 1
  /\ \E failed \in {"none", "link fails", "del fails"} :
       LET err == DeleteNetworkErr(ifaces, failed)
       IN /\ nlast' = NetCall("delete", err)
          /\ IF err = "nil"
             THEN /\ ifaces' = ifaces \ {NetName}
                  /\ linkUp' = FALSE
                  /\ addrs' = {}
                  /\ netState' = "Deleted"
             ELSE UNCHANGED <<ifaces, linkUp, addrs, netState>>
  /\ UNCHANGED <<netrest, cfgIP, network, routes, kpc, dhcpd>>

NetworkClient ==
  \/ \E dhcp \in BOOLEAN, gw \in {NilIP, Gateway}, dns \in {"nil", "empty", "one"} :
       NetCreate(dhcp, gw, dns)
  \/ NetServeReturns
  \/ NetLiteral
  \/ NetLinkAdd
  \/ NetConnect
  \/ NetDisconnect
  \/ NetDelete

\* ------------------------------------------------------ the process package
\* what a process action leaves alone
procrest == <<inputs, launchvars, paramvars, fsysvars, cgracevars, netracevars, ipvars, nsvars,
              netvars, toolvars>>

\* Process.Start(): cmd.Start()
ProcStart ==
  /\ pc = "proc" /\ child = "none"
  /\ \E ok \in BOOLEAN : child' = IF ok THEN "running" ELSE "failed"
  /\ UNCHANGED <<procrest, cstat, signals, waits>>

\* the child exits by itself with status s
ProcExits(s) ==
  /\ pc = "proc" /\ child = "running"
  /\ child' = "exited"
  /\ cstat' = s
  /\ UNCHANGED <<procrest, signals, waits>>

\* Process.Kill(sig): cmd.Process.Signal(sig); the signal ends a child that
\* is still running
ProcKill ==
  /\ pc = "proc" /\ child = "running"
  /\ child' = "signaled"
  /\ signals' = signals + 1
  /\ UNCHANGED <<procrest, cstat, waits>>

\* syscall.WaitStatus.ExitStatus(): the status of a child that exited, -1 of
\* one that a signal ended
ExitStatus(state, status) == IF state = "exited" THEN status ELSE -1

\* Process.Wait() on a child that ended in state with status: cmd.Wait()
\* returns nil for status 0 and an *exec.ExitError otherwise, and Wait turns
\* the ExitError into its exit status and a nil error
ProcessWait(state, status) ==
  IF state = "exited" /\ status = 0
  THEN [code |-> 0, err |-> "nil"]
  ELSE [code |-> ExitStatus(state, status), err |-> "nil"]

\* the first Process.Wait() after the child ended
ProcWait ==
  /\ pc = "proc" /\ child \in {"exited", "signaled"} /\ waits = <<>>
  /\ waits' = Append(waits, ProcessWait(child, cstat))
  /\ UNCHANGED <<procrest, child, cstat, signals>>

\* a later Process.Wait(): cmd.Wait() returns "exec: Wait was already
\* called", which is no ExitError
ProcWaitAgain ==
  /\ pc = "proc" /\ waits # <<>> /\ Len(waits) < MaxOps
  /\ waits' = Append(waits, [code |-> 0, err |-> "failed to get exit status"])
  /\ UNCHANGED <<procrest, child, cstat, signals>>

ProcessClient ==
  \/ ProcStart
  \/ \E s \in 0..MaxStatus : ProcExits(s)
  \/ ProcKill
  \/ ProcWait
  \/ ProcWaitAgain

\* ------------------------------------------------------------ the in-use probe
\* IsIPInUse returns true after logging an error
ProbeError ==
  /\ qerr' = TRUE
  /\ qres' = "in use"
  /\ qpc' = "done"

\* iface, err := net.InterfaceByIndex(1)
ProbeIface ==
  /\ qpc = "iface"
  /\ \E ok \in BOOLEAN :
       IF ok THEN qpc' = "dial" /\ UNCHANGED <<qres, qerr>> ELSE ProbeError
  /\ UNCHANGED <<oldvars, gwvars, dnsvars, qip, timer, frames>>

\* client, err := arp.Dial(iface)
ProbeDial ==
  /\ qpc = "dial"
  /\ \E ok \in BOOLEAN :
       IF ok THEN qpc' = "packet" /\ UNCHANGED <<qres, qerr>> ELSE ProbeError
  /\ UNCHANGED <<oldvars, gwvars, dnsvars, qip, timer, frames>>

\* arp.NewPacket(...): it refuses a source or a target that is no IPv4 address
\* (netIPToNetIPAddr(ip) of an ip that To4 rejects); ok is whether the
\* interface has an IPv4 address to send from
ProbePacket ==
  /\ qpc = "packet"
  /\ \E ok \in BOOLEAN :
       IF ok /\ To4(qip) # <<>>
       THEN qpc' = "send" /\ UNCHANGED <<qres, qerr>>
       ELSE ProbeError
  /\ UNCHANGED <<oldvars, gwvars, dnsvars, qip, timer, frames>>

\* client.WriteTo(arpRequest, broadcast); timeout := time.After(time.Second)
ProbeSend ==
  /\ qpc = "send"
  /\ \E ok \in BOOLEAN :
       IF ok THEN qpc' = "select" /\ UNCHANGED <<qres, qerr>> ELSE ProbeError
  /\ UNCHANGED <<oldvars, gwvars, dnsvars, qip, timer, frames>>

\* one second after time.After the runtime sends on the timeout channel
ProbeTimerFires ==
  /\ qpc \in {"select", "read"} /\ ~timer
  /\ timer' = TRUE
  /\ UNCHANGED <<oldvars, gwvars, dnsvars, qip, qpc, qres, qerr, frames>>

\* select { case <-timeout: return false; default: ... }
ProbeSelect ==
  /\ qpc = "select"
  /\ IF timer
     THEN qres' = "free" /\ qpc' = "done"
     ELSE qpc' = "read" /\ UNCHANGED qres
  /\ UNCHANGED <<oldvars, gwvars, dnsvars, qip, timer, qerr, frames>>

\* arpReply, _, err := client.Read(): the client has no read deadline, so the
\* call returns when the network delivers an ARP frame or the socket fails,
\* and not before.  An error continues the loop; a reply whose TargetIP is the
\* candidate returns true; any other frame goes round the loop.
ProbeRead(ev) ==
  /\ qpc = "read" /\ frames < MaxFrames
  /\ frames' = frames + 1
  /\ IF ev = "error"
     THEN qerr' = TRUE /\ qpc' = "select" /\ UNCHANGED qres
     ELSE IF ev = "reply for the candidate"
     THEN qres' = "in use" /\ qpc' = "done" /\ UNCHANGED qerr
     ELSE qpc' = "select" /\ UNCHANGED <<qres, qerr>>
  /\ UNCHANGED <<oldvars, gwvars, dnsvars, qip, timer>>

\* the steps IsIPInUse takes by itself, and the passing of time
ProbeProgress ==
  ProbeIface \/ ProbeDial \/ ProbePacket \/ ProbeSend \/ ProbeTimerFires \/ ProbeSelect

Probe ==
  \/ ProbeProgress
  \/ \E ev \in {"error", "reply for the candidate", "another frame"} : ProbeRead(ev)

\* ------------------------------------------------------- GetDefaultGateway
\* interfaces, err := net.Interfaces() fails
GwInterfacesFail ==
  /\ gwpc = "loop" /\ gwi = 0
  /\ gwres' = GwResult("failed to get interfaces", NilIP)
  /\ gwpc' = "done"
  /\ UNCHANGED <<oldvars, probevars, dnsvars, interfaces, gwi, iface, defaultIface, examined, rlist>>

\* the Index defaultIface points at: the module's go directive is 1.20, so
\* the range loop has one variable iface and &iface is its address
DerefIndex(ptr, loopVar) == loopVar

\* the pointer after: if defaultIface == nil || iface.Index <
\* defaultIface.Index { defaultIface = &iface }
AfterCompare(ptr, loopVar) ==
  IF ptr = "nil" \/ loopVar < DerefIndex(ptr, loopVar) THEN "&iface" ELSE ptr

\* one iteration of for _, iface := range interfaces
GwLoop ==
  /\ gwpc = "loop" /\ gwi < Len(interfaces)
  /\ gwi' = gwi + 1
  /\ iface' = interfaces[gwi + 1]
  /\ defaultIface' = AfterCompare(defaultIface, interfaces[gwi + 1])
  /\ UNCHANGED <<oldvars, probevars, dnsvars, interfaces, gwpc, examined, rlist, gwres>>

\* addrs, err := handler.Addrs(defaultIface): iface.Addrs() of a nil
\* interface is an error
GwAddrs ==
  /\ gwpc = "loop" /\ gwi = Len(interfaces)
  /\ \E ok \in BOOLEAN :
       IF ok /\ defaultIface # "nil"
       THEN /\ examined' = DerefIndex(defaultIface, iface)
            /\ gwpc' = "addrs"
            /\ UNCHANGED gwres
       ELSE /\ gwres' = GwResult("failed to get interface address", NilIP)
            /\ gwpc' = "done"
            /\ UNCHANGED examined
  /\ UNCHANGED <<oldvars, probevars, dnsvars, interfaces, gwi, iface, defaultIface, rlist>>

\* the first route of rs whose Dst is not nil and contains ipNet.IP, 0 for none
FirstMatch(rs) ==
  IF \E k \in 1..Len(rs) : rs[k] = "contains"
  THEN CHOOSE k \in 1..Len(rs) : rs[k] = "contains" /\ \A j \in 1..(k - 1) : rs[j] # "contains"
  ELSE 0

\* the loop over addrs: covered says an address of the interface contains
\* ipNet.IP; rs are the routes of handler.RouteList by their Dst: nil, a
\* network that contains ipNet.IP, or another network
GwRoutes ==
  /\ gwpc = "addrs"
  /\ \E covered \in BOOLEAN, ok \in BOOLEAN,
        rs \in UNION {[1..n -> {"nil", "contains", "other"}] : n \in 0..MaxRoutes} :
       /\ rlist' = IF covered /\ ok THEN rs ELSE <<>>
       /\ gwres' = IF ~covered THEN GwResult("nil", NilIP)
                    ELSE IF ~ok THEN GwResult("failed to get routes", NilIP)
                    ELSE IF FirstMatch(rs) # 0 THEN GwResult("nil", Gateway)
                    ELSE GwResult("nil", NilIP)
  /\ gwpc' = "done"
  /\ UNCHANGED <<oldvars, probevars, dnsvars, interfaces, gwi, iface, defaultIface, examined>>

GetDefaultGateway == GwInterfacesFail \/ GwLoop \/ GwAddrs \/ GwRoutes

\* ------------------------------------------------------- parseDNSResponse
\* byte i (from 0) of the buffer: response is response[:n] of a fresh buffer
\* of DnsCap bytes, so the bytes from n on are zero
ByteAt(i) == IF i < Len(response) THEN response[i + 1] ELSE 0

\* binary.BigEndian.Uint16(data[i:i+2])
Uint16At(i) == 256 * ByteAt(i) + ByteAt(i + 1)

\* a slice expression data[lo:hi] panics when hi exceeds cap(data)
SlicePanics(hi) == hi > DnsCap

\* parseDNSResponse returns an error
DnsFails ==
  /\ dres' = "error"
  /\ dpc' = "done"

\* a run-time panic ends the parse
DnsPanics(kind) ==
  /\ dres' = kind
  /\ dpc' = "done"

\* parseHeader and the checks of qr and rcode
DnsParseHeader ==
  /\ dpc = "header"
  /\ IF Len(response) < 12 \/ ByteAt(2) \div 128 = 0 \/ ByteAt(3) % 16 # 0
     THEN DnsFails /\ UNCHANGED doff
     ELSE dpc' = "questions" /\ doff' = 12 /\ UNCHANGED dres
  /\ UNCHANGED <<oldvars, probevars, gwvars, response, dstack, dcaller, dcount, answers, pastEnd>>

\* the loop over the question section calls readDomainName(response, offset)
DnsQuestion ==
  /\ dpc = "questions"
  /\ IF dcount < Uint16At(4)
     THEN dpc' = "name" /\ dcaller' = "question" /\ UNCHANGED dcount
     ELSE dpc' = "answers" /\ dcount' = 0 /\ UNCHANGED dcaller
  /\ UNCHANGED <<oldvars, probevars, gwvars, response, doff, dstack, answers, pastEnd, dres>>

\* the loop over the answers calls readAnswer, which calls readDomainName
DnsAnswer ==
  /\ dpc = "answers"
  /\ IF dcount < Uint16At(6)
     THEN dpc' = "name" /\ dcaller' = "answer" /\ UNCHANGED <<dres, dstack>>
     ELSE dres' = "answers" /\ dpc' = "done" /\ UNCHANGED <<dcaller, dstack>>
  /\ UNCHANGED <<oldvars, probevars, gwvars, response, doff, dcount, answers, pastEnd>>

\* the offset readDomainName returns to parseDNSResponse or readAnswer when
\* its innermost call has met the zero byte at offset off: every pending call
\* adds 2 to its own offset, breaks and returns offset + 1
NameEnd(off, stack) == IF stack = <<>> THEN off + 1 ELSE stack[1] + 2 + 1

\* one iteration of the loop of the innermost readDomainName
readDomainName ==
  /\ dpc = "name"
  /\ IF doff >= Len(response)
     THEN /\ DnsPanics("panic")
          /\ UNCHANGED <<doff, dstack, dcount, pastEnd>>
     ELSE LET length == ByteAt(doff)
          IN IF length = 0
             THEN /\ doff' = (IF dcaller = "question" THEN NameEnd(doff, dstack) + 4
                                                       ELSE NameEnd(doff, dstack))
                  /\ dcount' = (IF dcaller = "question" THEN dcount + 1 ELSE dcount)
                  /\ dpc' = (IF dcaller = "question" THEN "questions" ELSE "record")
                  /\ dstack' = <<>>
                  /\ UNCHANGED <<pastEnd, dres>>
             ELSE IF length >= 192
             THEN IF Len(dstack) = MaxDepth
                  THEN /\ DnsPanics("stack overflow")
                       /\ UNCHANGED <<doff, dstack, dcount, pastEnd>>
                  ELSE /\ dstack' = Append(dstack, doff)
                       /\ doff' = Uint16At(doff) % 16384
                       /\ pastEnd' = (pastEnd \/ doff + 2 > Len(response))
                       /\ UNCHANGED <<dpc, dcount, dres>>
             ELSE IF SlicePanics(doff + 1 + length)
             THEN /\ DnsPanics("panic")
                  /\ UNCHANGED <<doff, dstack, dcount, pastEnd>>
             ELSE /\ doff' = doff + 1 + length
                  /\ pastEnd' = (pastEnd \/ doff + 1 + length > Len(response))
                  /\ UNCHANGED <<dpc, dstack, dcount, dres>>
  /\ UNCHANGED <<oldvars, probevars, gwvars, response, dcaller, answers>>

\* readAnswer after the name, which ended at doff: the type, the length and
\* the data are sliced out of data without a look at len(data)
readAnswer ==
  /\ dpc = "record"
  /\ LET rtype == Uint16At(doff)
         rdlength == Uint16At(doff + 8)
         next == doff + 10 + rdlength
     IN IF SlicePanics(next)
        THEN /\ DnsPanics("panic")
             /\ pastEnd' = (pastEnd \/ doff + 10 > Len(response))
             /\ UNCHANGED <<doff, dcount, answers>>
        ELSE /\ pastEnd' = (pastEnd \/ next > Len(response))
             /\ IF rtype \in {1, 28}
                THEN /\ answers' = Append(answers, rtype)
                     /\ doff' = next
                     /\ dcount' = dcount + 1
                     /\ dpc' = "answers"
                     /\ UNCHANGED dres
                ELSE /\ DnsFails
                     /\ UNCHANGED <<doff, dcount, answers>>
  /\ UNCHANGED <<oldvars, probevars, gwvars, response, dstack, dcaller>>

parseDNSResponse == DnsParseHeader \/ DnsQuestion \/ DnsAnswer \/ readDomainName \/ readAnswer

Next ==
  \/ NewCgroup \/ Api \/ Run
  \/ Param \/ Filesystem \/ CgroupRace \/ NetworkRace \/ GetAvailableIP \/ Namespace
  \/ NetworkClient \/ ProcessClient
  \/ Probe \/ GetDefaultGateway \/ parseDNSResponse

Spec == Init /\ [][Next]_vars

\* the scheduler runs IsIPInUse whenever it can take a step, and the second
\* of the timeout passes; whether the network delivers a frame is left open
FairSpec == Spec /\ WF_vars(ProbeProgress)

\* ------------------------------------------------------------------ claims
Range(q) == {q[i] : i \in 1..Len(q)}

\* q lists members of order, each at most once, in the order of order
InOrderOf(q, order) ==
  \A i, j \in 1..Len(q) :
    i < j => \E a, b \in 1..Len(order) : a < b /\ order[a] = q[i] /\ order[b] = q[j]

\* Run has returned to run of cmd/spocker, which ended the process
RunReturned == entry = "run" /\ pc = "exited" /\ exitCode \in {0, 1} /\ attempted # <<>>

ReleaseOrder == <<"network", "filesystem", "namespace", "cgroup">>

C3_NoMutationWithoutRoot ==
  (entry = "run" /\ euid # 0 /\ ParseCIDR(cidrFlag) # ParseError) =>
    /\ klog = <<>> /\ spawned = 0 /\ probes = 0
    /\ cpc = "idle" /\ attempted = <<>> /\ tasksFd = "none"
    /\ pc \in {"main", "exited"}
    /\ pc = "exited" => exitCode = 1

\* C3 witness: the launch of a non-root process has ended
C3_Witness ==
  /\ entry = "run" /\ euid # 0 /\ ParseCIDR(cidrFlag) # ParseError
  /\ pc = "exited" /\ exitCode = 1

AcquisitionOrder == <<"cgroup", "namespace", "filesystem", "network", "hostname", "child">>

\* C4: the phases Run has begun are a prefix of cgroup, namespace, filesystem,
\* network, hostname, child, and every phase but the last begun has succeeded.
C4_AcquisitionOrder ==
  /\ Len(attempted) <= Len(AcquisitionOrder)
  /\ attempted = SubSeq(AcquisitionOrder, 1, Len(attempted))
  /\ \A i \in 1..(Len(attempted) - 1) : attempted[i] \in succeeded
  /\ \A ph \in succeeded : ph \in Range(attempted)

\* C4 witness: the network phase failed and Run returned without a later phase
C4_Witness ==
  /\ RunReturned /\ runErr
  /\ attempted = <<"cgroup", "namespace", "filesystem", "network">>
  /\ succeeded = {"cgroup", "namespace", "filesystem"}

\* create returned a handle and nothing was called on it yet
JustCreated == cpc = "done" /\ cres = "ok" /\ ops = 0

\* C5: after a successful create the directories root/name and
\* root/<subsystem>/name exist and each control file holds exactly the decimal
\* digits of its limit, whatever it held before.
C5_ControlFilesExact ==
  JustCreated =>
    /\ CgroupPath(name) \in dirs
    /\ \A s \in Range(Subsystems) : SubsystemPath(s, name) \in dirs
    /\ \A s \in DOMAIN res :
         /\ SubsystemFile(s, name) \in DOMAIN files
         /\ files[SubsystemFile(s, name)] = Dec(res[s])

C7_HandleStates ==
  /\ (last.op \in {"set", "add_process"} /\ last.before # "Built") =>
       ~last.ok /\ ~last.changed
  /\ (last.op = "remove" /\ last.before # "Closed") =>
       ~last.ok /\ ~last.changed

\* C8: from a successful create until the first close the tasks descriptor is
\* open, and the first close returns success.
C8_TasksFdOpen ==
  /\ (cpc = "done" /\ cres = "ok" /\ closeCalls = <<>> /\ released = <<>>) => tasksFd = "open"
  /\ closeCalls # <<>> => closeCalls[1]

\* the control files written so far, in order
ControlWrites ==
  SelectSeq(klog, LAMBDA e : e.op = "write"
                      /\ e.path \in {SubsystemFile(s, name) : s \in Range(Subsystems)})

\* C9: create of a spec with an absent limit, with subsystems that carry a
\* file handler, ends without a panic, has written no control file of an
\* absent limit, and has written the control files of the present limits in
\* the order cpu, memory, blkio.
C9_AbsentSkipped ==
  (DOMAIN res # Range(Subsystems) /\ handler = "os") =>
    /\ cres # "panic"
    /\ \A i \in 1..Len(ControlWrites) :
         \E s \in DOMAIN res : ControlWrites[i].path = SubsystemFile(s, name)
    /\ InOrderOf([i \in 1..Len(ControlWrites) |-> ControlWrites[i].path[1]], Subsystems)
    /\ JustCreated => \A s \in DOMAIN res :
                        \E i \in 1..Len(ControlWrites) :
                          ControlWrites[i].path = SubsystemFile(s, name)

\* C10: every write of a control file comes after the write of the runtime's
\* pid to the tasks file, and while create is at its subsystems the tasks
\* file holds the pid.
C10_TasksBeforeControls ==
  /\ \A i \in 1..Len(klog) :
       (klog[i].op = "write" /\ klog[i].path \in {SubsystemFile(s, name) : s \in Range(Subsystems)})
         => \E j \in 1..(i - 1) : klog[j] = Ev("write", TasksFilePath(name))
  /\ cpc \in {"submkdir", "apply", "ret"} =>
       /\ TasksFilePath(name) \in DOMAIN files
       /\ files[TasksFilePath(name)] = PidLine(pid)

\* C10 witness: create has written all three control files and returned
C10_Witness == JustCreated /\ Len(ControlWrites) = Len(Subsystems)
\* the elements of the cgroup mount point
CgroupMount == <<"sys", "fs", "cgroup">>

\* C11: a param call whose path does not begin with /sys/fs/cgroup/ fails
\* with InvalidPath and performs no file operation: nothing is opened, read,
\* truncated or written.
C11_PrefixChecked ==
  (plast.op \in {"set", "get"} /\ ~IsPrefix(AbsPath(CgroupMount) \o <<Sep>>, plast.path)) =>
    /\ plast.err = "InvalidPath"
    /\ plast.io = {}

\* C11 witness: set_param("/etc", "passwd", ...) was refused and /etc/passwd
\* is as it was
C11_Witness ==
  /\ plast.op = "set" /\ plast.path = AbsPath(<<"etc">>) /\ plast.param = <<"passwd">>
  /\ plast.err = "InvalidPath"
  /\ hostFiles[AbsPath(<<"etc", "passwd">>)] = HostFiles[AbsPath(<<"etc", "passwd">>)]

\* C12: every file a param call opened for writing lies beneath
\* /sys/fs/cgroup/ once its path is normalised.
C12_WritesBeneathCgroup ==
  \A e \in hostIo :
    e.op = "open for writing" =>
      /\ IsPrefix(CgroupMount, PathElems(Clean(e.path)))
      /\ Len(PathElems(Clean(e.path))) > Len(CgroupMount)
\* the path r names inside root, normalised
Normalised(r) == Clean(root \o <<Sep>> \o r)
\* the normalised path lies inside root
InsideRoot(p) == IsPrefix(PathElems(root), PathElems(p))

\* C13: every path a Filesystem call resolved lies inside root, and a call
\* whose argument normalises outside root failed with InvalidPath and did nothing.
C13_ResolvedInsideRoot ==
  flast.op # "none" =>
    /\ \A i \in 1..Len(flast.args) :
         ~InsideRoot(Normalised(flast.args[i])) => flast.err = "InvalidPath" /\ flast.io = {}
    /\ flast.err = "nil" => \A i \in 1..Len(flast.resolved) : InsideRoot(flast.resolved[i])
    /\ \A e \in flast.io : InsideRoot(e.path)

\* C14: after copy_file(a, b) returned success with a and b inside root, b
\* holds the content a had when the call began.
C14_CopyRoundTrip ==
  (/\ flast.op = "copy_file" /\ flast.err = "nil"
   /\ \A i \in 1..2 : InsideRoot(Normalised(flast.args[i]))) =>
    /\ flast.resolved[2] \in DOMAIN hostFiles
    /\ hostFiles[flast.resolved[2]] = flast.srcBefore
\* the launch that is not p
Other(p) == 3 - p

\* C15: of two launches given the same network name, never both hold a live
\* Network, and when neither met an unrelated error one created the network
\* and the other failed with AlreadyExists.
C15_OneNetworkPerName ==
  /\ ~(nres[1] = "live" /\ nres[2] = "live")
  /\ (\A p \in Launches : npc[p] \in {"held", "done"} /\ nres[p] # "err") =>
       \E p \in Launches : nres[p] \in {"live", "deleted"} /\ nres[Other(p)] = "AlreadyExists"

\* C16: of two launches creating a cgroup of the same name, when neither met
\* an unrelated error exactly one create succeeded, the other failed with
\* AlreadyExists, and the tasks file holds the pid of the one that succeeded.
C16_OneCgroupPerName ==
  (\A p \in Launches : lpc[p] = "done" /\ lres[p] # "err") =>
    \E p \in Launches :
      /\ lres[p] = "ok" /\ lres[Other(p)] = "AlreadyExists"
      /\ files[TasksFilePath(name)] = PidLine(PidOf(p))
\* an address of 4 or of 16 bytes
WellFormed(ip) == Len(ip) \in {IPv4len, IPv6len}

\* C17: GetAvailableIP either fails with ResourceExhausted or returns a
\* well-formed address that the CIDR contains.
C17_AddressInsideCidr ==
  /\ ipres.status \in {"none", "ok", "ResourceExhausted"}
  /\ ipres.status = "ok" => WellFormed(ipres.ip) /\ Contains(cidr, ipres.ip)

\* C18: on a CIDR with no host bits GetAvailableIP never returns an address.
C18_NoHostBitsExhausted ==
  (cidr.ones = cidr.bits /\ ipres.status # "none") => ipres.status = "ResourceExhausted"
\* C19: the descriptor of a Namespace is open from its construction until the
\* first close, the first close succeeds and every later close returns an error.
C19_NamespaceFdOpen ==
  /\ (nsFd # "none" /\ nsCloses = <<>> /\ "namespace" \notin Range(released)) => nsFd = "open"
  /\ \A i \in 1..Len(nsCloses) : nsCloses[i] <=> i = 1

\* C20: SetHostname spawns no process, and when it returned success the
\* kernel's hostname is the name it was given.
C20_HostnameBySyscall ==
  hlast.n > 0 =>
    /\ hlast.spawned = 0
    /\ hlast.err = "nil" => hostname = hlast.name

\* C21: after a connect that returned an error the link carries the addresses
\* it carried before the call: an address the call added before a later step
\* failed is not left on the link.
C21_FailedConnectAddsNoAddress ==
  (nlast.op = "connect" /\ nlast.err # "nil") => addrs = nlast.addrs

\* the errors of the netlink requests of DeleteNetwork that the kernel refused
KernelRefusals == {"link fails", "del fails"}

\* C22: a delete of a network in state Created or Disconnected returns
\* success, unless the kernel refused one of its requests; so does the delete
\* that Run deferred for the network it created.
C22_DeleteFromCreatedOrDisconnected ==
  /\ (nlast.op = "delete" /\ nlast.before \in {"Created", "Disconnected"}) =>
       nlast.err \in {"nil"} \cup KernelRefusals
  /\ delErr \in {"none", "nil"} \cup KernelRefusals

\* the errors of a create that has not started its listener
CreateRefusals == {"AlreadyExists", "failed to create DHCP server"}

\* C23: while the DHCPv6 listener serves, create is not inside it, and a
\* create with DHCP set that started its listener returned a Network with no
\* error.
C23_DhcpCreateReturns ==
  /\ dhcpd = "serving" => kpc = "idle"
  /\ (nlast.op = "create" /\ nlast.dhcp /\ nlast.err \notin CreateRefusals) =>
       nlast.err = "nil" /\ network # NoNetwork

C25_SecondRemoveNotFound ==
  (last.op = "remove" /\ last.before = "Removed") => ~last.ok

\* the subsystem a control belongs to
SubsystemOf(control) == CHOOSE s \in Range(Subsystems) : ControlFile(s) = control

\* C26: after set(control, v) returned success on a Built cgroup, the file
\* control in root/<subsystem>/name holds v.
C26_SetReadInSubsystemDir ==
  (last.op = "set" /\ last.before = "Built" /\ last.ok) =>
    LET f == SubsystemFile(SubsystemOf(last.control), name)
    IN f \in DOMAIN files /\ files[f] = last.value

\* a spec that create has to refuse: its name is empty or contains a
\* separator, or a limit that is present is negative
InvalidSpec(n, r) == n = <<>> \/ Sep \in Range(n) \/ \E s \in DOMAIN r : r[s] < 0

\* C27: create of a spec with an empty name, a name containing "/" or a
\* negative limit makes no directory, writes no file and returns no handle.
C27_InvalidSpecRejected ==
  (entry = "api" /\ InvalidSpec(name, res)) =>
    /\ klog = <<>>
    /\ cres # "ok"
    /\ handle = "Unbuilt"

\* C28: a run invocation whose --network-ip-cidr is missing or malformed ends
\* with exit code 1 and has made no cgroup directory or file, spawned no
\* process and sent no probe.
C28_BadCidrExitsOne ==
  (entry = "run" /\ ParseCIDR(cidrFlag) = ParseError) =>
    /\ klog = <<>> /\ spawned = 0 /\ probes = 0 /\ cpc = "idle" /\ attempted = <<>>
    /\ pc \in {"main", "exited"}
    /\ pc = "exited" => exitCode = 1

\* C29: the first Wait returns the child's exit status with a nil error when
\* the child exited by itself, and exit code -1 with a non-nil error when a
\* signal sent with Kill ended the child.
C29_WaitReportsExitAndKill ==
  waits # <<>> =>
    /\ child = "exited" => waits[1].err = "nil" /\ waits[1].code = cstat
    /\ child = "signaled" => waits[1].err # "nil" /\ waits[1].code = -1

\* some line of a file's content is line
HasLine(content, line) ==
  \E i \in 1..(Len(content) - Len(line) + 1) :
    /\ SubSeq(content, i, i + Len(line) - 1) = line
    /\ i = 1 \/ content[i - 1] = "\n"

FailedPhase == IF runErr /\ attempted # <<>> THEN attempted[Len(attempted)] ELSE "none"

\* a launch met a refusal of the kernel: a cgroup file or directory call, the
\* spawn of the helper, of hostnamectl or of the child, the wait, the
\* filesystem root, the interface name or the address probes
KernelRefused ==
  \/ cres = "err"
  \/ FailedPhase \in {"namespace", "filesystem", "network", "child"}
  \/ FailedPhase = "hostname" /\ spawned = 2

\* C31: a launch that has ended, was started by root with a CIDR that parses
\* and met no refusal of the kernel, has started its child and waited for it,
\* and Run returned without an error.
C31_LaunchReachesChild ==
  (entry = "run" /\ pc = "exited" /\ ~NeedsRoot(euid)
     /\ ParseCIDR(cidrFlag) # ParseError /\ ~KernelRefused) =>
    /\ "child" \in succeeded
    /\ exitCode = 0

\* C32: once the timeout of a probe has fired, the probe returns.
C32_ProbeReturnsAfterTimeout ==
  (entry = "probe" /\ timer) ~> (qpc = "done")

\* C33: a probe during which an interface or ARP call failed does not report
\* "free".
C33_ErrorMeansInUse ==
  (entry = "probe" /\ qerr) => qres # "free"

\* C34: GetAvailableIP probes at most ten candidates; when it returns an
\* address, that address is the candidate of its last probe, the last probe
\* reported free and every probe before it reported in use; and it has failed
\* with ResourceExhausted exactly when ten probes in a row have reported in use.
C34_FirstFreeOfTen ==
  entry = "ip" =>
    /\ Len(iplog) <= ProbeLimit
    /\ \A i \in 1..(Len(iplog) - 1) : iplog[i]
    /\ ipres.status = "ok" =>
         /\ iplog # <<>> /\ ~iplog[Len(iplog)]
         /\ ipres.ip = probed
    /\ ipres.status = "ResourceExhausted" =>
         Len(iplog) = ProbeLimit /\ iplog[ProbeLimit]
    /\ (ipres.status # "none" /\ Len(iplog) = ProbeLimit /\ iplog[ProbeLimit]) =>
         ipres.status = "ResourceExhausted"

\* a call returned the address of its fourth probe, after three addresses in use
C34_Witness ==
  /\ entry = "ip" /\ ipres.status = "ok" /\ Len(iplog) = 4
  /\ ipres.ip = probed

\* C38: once GetAvailableIP has drawn or tried to draw, the candidate space it
\* computed is positive and equals 2^h for the h host bits of the CIDR, and
\* the draw has not failed on a bound that is not positive.
C38_SpaceIsTwoToTheH ==
  (entry = "ip" /\ (iplog # <<>> \/ ipres.status # "none")) =>
    /\ Int64Sign(IpSpace(cidr)) = 1
    /\ \A b \in 0..(Int64Width - 1) : IpSpace(cidr)[b] = 1 <=> b = cidr.bits - cidr.ones
    /\ ipres.status # "panic"

\* the clone flag of the namespace kind a NamespaceType names
FlagOfType(t) ==
  CASE t = "PID" -> "CLONE_NEWPID"
    [] t = "UTS" -> "CLONE_NEWUTS"
    [] t = "IPC" -> "CLONE_NEWIPC"
    [] t = "Net" -> "CLONE_NEWNET"
    [] t = "User" -> "CLONE_NEWUSER"
    [] t = "Cgroup" -> "CLONE_NEWCGROUP"

\* C35: the helper child NewNamespace has started for a spec of type t was
\* given the flag of namespace kind t.
C35_HelperFlagOfType ==
  (entry = "ns" /\ helperNs # {}) => FlagOfType(nsType) \in helperNs

\* C36: every RemoveAll a Remove call has made was given a path strictly
\* beneath the cgroup root: not the root itself and not a path that leaves it.
C36_RemoveBeneathRoot ==
  \A i \in 1..Len(klog) :
    klog[i].op = "remove" => klog[i].path # <<>> /\ klog[i].path[1] # ".."

SmallestIndex == CHOOSE m \in Range(interfaces) : \A k \in Range(interfaces) : m <= k

\* C39: the interface whose addresses GetDefaultGateway reads is the one with
\* the smallest Index among those net.Interfaces() listed, in whatever order
\* they were listed; and a lookup whose calls succeeded and that saw no route
\* to a network containing the target returns a nil gateway and a nil error.
C39_SmallestIndexExamined ==
  entry = "gw" =>
    /\ examined # 0 => examined = SmallestIndex
    /\ (gwpc = "done" /\ examined # 0 /\ gwres.err # "failed to get routes"
          /\ FirstMatch(rlist) = 0) => gwres = GwResult("nil", NilIP)

\* C40: a parse of a received datagram ends with answers or with an error,
\* has read no byte beyond the received ones, and follows no compression
\* pointer it is already following.
C40_ParseEndsInsideDatagram ==
  entry = "dns" =>
    /\ dres \in {"none", "answers", "error"}
    /\ ~pastEnd
    /\ \A i, j \in 1..Len(dstack) : i # j => dstack[i] # dstack[j]
====
